---- MODULE Spec2Model ----
(***************************************************************************)
(* Verification model of the ShopifyLinesheet catalog builder:             *)
(*   helpers/utils.py        parse_size_and_quantity,                      *)
(*                           sort_sizes_with_quantities                    *)
(*   backend/data_processor.py  variant explosion, quantity and compare    *)
(*                           price extraction, override application,       *)
(*                           row shaping                                   *)
(*   helpers/column_mapper.py   the three passes of the column mapping     *)
(* Strings whose characters matter (size tokens, numeric cells) are        *)
(* sequences of one-character strings.  The texts the inputs give to       *)
(* float() have no "+", exponent or "_", so the grammar below (digits, one *)
(* optional ".", an optional leading "-", and the words inf, infinity and  *)
(* nan in any letter case) is the whole of Python's float() on it.         *)
(***************************************************************************)
EXTENDS Integers, Sequences, FiniteSets, TLC

VARIABLES input, result, aux, pc,     \* the function specifications
          st,                          \* st.session_state
          ui,                          \* what the page of the last run shows
          shopify_csv,                 \* the catalog of the last generation
          env,                         \* the installed libraries
          used                         \* uploads and widget changes so far


vars == <<input, result, aux, pc, st, ui, shopify_csv, env, used>>

(***************************************************************************)
(* Characters                                                              *)
(***************************************************************************)
UpperLetters == <<"A","B","C","D","E","F","G","H","I","J","K","L","M",
                  "N","O","P","Q","R","S","T","U","V","W","X","Y","Z">>

LowerLetters == <<"a","b","c","d","e","f","g","h","i","j","k","l","m",
                  "n","o","p","q","r","s","t","u","v","w","x","y","z">>

DigitChars == <<"0","1","2","3","4","5","6","7","8","9">>

AllChars ==
  {UpperLetters[i] : i \in 1..26} \cup {LowerLetters[i] : i \in 1..26}
    \cup {DigitChars[i] : i \in 1..10} \cup {" ", "-", ".", ",", "!", "_"}

IsDigit(c) == \E i \in 1..10 : DigitChars[i] = c

\* int() of one digit
DigitValOf ==
  [c \in {DigitChars[i] : i \in 1..10} |-> (CHOOSE i \in 1..10 : DigitChars[i] = c) - 1]

\* str.lower() on one character
LowerOf ==
  [c \in AllChars |->
     IF \E i \in 1..26 : UpperLetters[i] = c
       THEN LowerLetters[CHOOSE i \in 1..26 : UpperLetters[i] = c] ELSE c]

\* str.upper() on one character
UpperOf ==
  [c \in AllChars |->
     IF \E i \in 1..26 : LowerLetters[i] = c
       THEN UpperLetters[CHOOSE i \in 1..26 : LowerLetters[i] = c] ELSE c]

\* code point of a character (ASCII)
OrdOf ==
  [c \in AllChars |->
     IF \E i \in 1..26 : UpperLetters[i] = c
       THEN 64 + (CHOOSE i \in 1..26 : UpperLetters[i] = c)
     ELSE IF \E i \in 1..26 : LowerLetters[i] = c
       THEN 96 + (CHOOSE i \in 1..26 : LowerLetters[i] = c)
     ELSE IF IsDigit(c) THEN 48 + DigitValOf[c]
     ELSE IF c = " " THEN 32
     ELSE IF c = "!" THEN 33
     ELSE IF c = "," THEN 44
     ELSE IF c = "-" THEN 45
     ELSE IF c = "_" THEN 95
     ELSE 46]

LowerStr(s) == [i \in 1..Len(s) |-> LowerOf[s[i]]] \o <<>>

UpperStr(s) == [i \in 1..Len(s) |-> UpperOf[s[i]]] \o <<>>

SetMin(S) == CHOOSE x \in S : \A y \in S : x <= y

SetMax(S) == CHOOSE x \in S : \A y \in S : y <= x

\* {}
EmptyDict == [k \in {} |-> 0]

\* str.strip(): whitespace removed at both ends
Strip(s) ==
  LET keep == {i \in 1..Len(s) : s[i] # " "}
  IN  IF keep = {} THEN <<>> ELSE SubSeq(s, SetMin(keep), SetMax(keep))

\* str.count('-')
CountHyphen(s) == Cardinality({i \in 1..Len(s) : s[i] = "-"})

\* str.split('-')[0]
BeforeHyphen(s) ==
  LET hs == {i \in 1..Len(s) : s[i] = "-"}
  IN  IF hs = {} THEN s ELSE SubSeq(s, 1, SetMin(hs) - 1)

\* the part after the first hyphen: str.split('-')[1] when there is one hyphen
AfterHyphen(s) ==
  LET hs == {i \in 1..Len(s) : s[i] = "-"}
  IN  IF hs = {} THEN <<>> ELSE SubSeq(s, SetMin(hs) + 1, Len(s))

RECURSIVE DigitsValue(_)
\* value of a string of decimal digits (0 for the empty string)
DigitsValue(s) ==
  IF s = <<>> THEN 0
  ELSE 10 * DigitsValue(SubSeq(s, 1, Len(s) - 1)) + DigitValOf[s[Len(s)]]

\* str lexicographic "<" by code point
StrLess(a, b) ==
  \/ \E k \in 1..Len(a) :
        /\ k <= Len(b)
        /\ \A j \in 1..(k - 1) : a[j] = b[j]
        /\ OrdOf[a[k]] < OrdOf[b[k]]
  \/ /\ Len(a) < Len(b)
     /\ \A j \in 1..Len(a) : a[j] = b[j]

(***************************************************************************)
(* float(x): the outcome of Python's float() on a string                   *)
(*   kind "finite": neg, ip (integer part), fnz (a non-zero fraction),     *)
(*                  hund (the magnitude in hundredths, two decimals kept)  *)
(*   kind "inf" / "nan": the special values; kind "error": ValueError      *)
(***************************************************************************)
\* the float of an unsigned body (the text after an optional "-")
FloatOfBody(neg, body) ==
  LET dots == {i \in 1..Len(body) : body[i] = "."}
      digs == {i \in 1..Len(body) : IsDigit(body[i])}
      ipS  == IF dots = {} THEN body ELSE SubSeq(body, 1, SetMin(dots) - 1)
      frS  == IF dots = {} THEN <<>> ELSE SubSeq(body, SetMin(dots) + 1, Len(body))
  IN  IF LowerStr(body) \in {<<"i","n","f">>, <<"i","n","f","i","n","i","t","y">>}
        THEN [kind |-> "inf", neg |-> neg, ip |-> 0, fnz |-> FALSE, hund |-> 0]
      ELSE IF LowerStr(body) = <<"n","a","n">>
        THEN [kind |-> "nan", neg |-> neg, ip |-> 0, fnz |-> FALSE, hund |-> 0]
      ELSE IF /\ digs # {}
              /\ Cardinality(dots) <= 1
              /\ digs \cup dots = 1..Len(body)
        THEN [kind |-> "finite", neg |-> neg, ip |-> DigitsValue(ipS),
              fnz |-> \E i \in 1..Len(frS) : frS[i] # "0",
              hund |-> 100 * DigitsValue(ipS)
                        + DigitsValue(SubSeq(frS \o <<"0", "0">>, 1, 2))]
      ELSE [kind |-> "error", neg |-> FALSE, ip |-> 0, fnz |-> FALSE, hund |-> 0]

\* the float of a stripped text: the sign, then the body
FloatOfStripped(t) ==
  IF t # <<>> /\ t[1] = "-" THEN FloatOfBody(TRUE, SubSeq(t, 2, Len(t)))
  ELSE FloatOfBody(FALSE, t)

PyFloat(s) == FloatOfStripped(Strip(s))

\* int(f) of a finite float: truncation toward zero
PyInt(f) == IF f.neg THEN 0 - f.ip ELSE f.ip

(***************************************************************************)
(* helpers/utils.py: parse_size_and_quantity                               *)
(***************************************************************************)
CustomWord == <<"c","u","s","t","o","m">>

CustomSize == <<"C","u","s","t","o","m">>

\* variant that drops the embedded quantity of a decomposed token
parse_size_and_quantity_noqty(size_string) ==
  LET s == Strip(size_string)
      f == PyFloat(AfterHyphen(s))
  IN  IF LowerStr(s) = CustomWord
        THEN [status |-> "ok", size |-> CustomSize, qty |-> 0]
      ELSE IF CountHyphen(s) = 1
        THEN CASE f.kind = "finite" ->
                    [status |-> "ok", size |-> Strip(BeforeHyphen(s)), qty |-> 0]
               [] f.kind = "inf" ->
                    [status |-> "OverflowError", size |-> s, qty |-> 0]
               [] OTHER ->
                    [status |-> "ok", size |-> s, qty |-> 0]
      ELSE [status |-> "ok", size |-> s, qty |-> 0]

parse_size_and_quantity(size_string) ==
  LET s == Strip(size_string)
      f == PyFloat(AfterHyphen(s))
  IN  IF LowerStr(s) = CustomWord
        THEN [status |-> "ok", size |-> CustomSize, qty |-> 0]
      ELSE IF CountHyphen(s) = 1
        THEN CASE f.kind = "finite" ->
                    [status |-> "ok", size |-> Strip(BeforeHyphen(s)), qty |-> PyInt(f)]
               [] f.kind = "inf" ->
                    [status |-> "OverflowError", size |-> s, qty |-> 0]
               [] OTHER ->
                    [status |-> "ok", size |-> s, qty |-> 0]
      ELSE [status |-> "ok", size |-> s, qty |-> 0]

(***************************************************************************)
(* helpers/utils.py: sort_sizes_with_quantities                            *)
(* A cell is the sequence of the parts between its commas.                 *)
(***************************************************************************)
standard_order ==
  << <<"X","X","S">>, <<"X","S">>, <<"S">>, <<"M">>, <<"L">>, <<"X","L">>,
     <<"X","X","L">>, <<"X","X","X","L">>, <<"2","X","L">>, <<"3","X","L">>,
     <<"4","X","L">>, <<"5","X","L">> >>

\* str.split(','): the parts between the commas, at least one
SplitComma(str) ==
  LET cs == {i \in 1..Len(str) : str[i] = ","}
      bounds == {0} \cup cs \cup {Len(str) + 1}
      start(p) == CHOOSE b \in bounds : Cardinality({c \in bounds : c < b}) = p - 1
      stop(p)  == CHOOSE b \in bounds : Cardinality({c \in bounds : c < b}) = p
  IN  [p \in 1..(Cardinality(cs) + 1) |-> SubSeq(str, start(p) + 1, stop(p) - 1)] \o <<>>

RECURSIVE JoinComma(_)
\* ','.join(parts)
JoinComma(parts) ==
  IF parts = <<>> THEN <<>>
  ELSE IF Len(parts) = 1 THEN parts[1]
  ELSE parts[1] \o <<",">> \o JoinComma(Tail(parts))

\* [s.strip() for s in str(x).split(',') if s.strip()]
SplitClean(str) ==
  LET parts == SplitComma(str)
  IN  SelectSeq([i \in 1..Len(parts) |-> Strip(parts[i])], LAMBDA t : t # <<>>)

\* remove duplicates while preserving first-seen order
Dedup(seq) ==
  LET firsts == {i \in 1..Len(seq) : \A j \in 1..(i - 1) : seq[j] # seq[i]}
      rank(i) == Cardinality({j \in firsts : j <= i})
  IN  [p \in 1..Cardinality(firsts) |-> seq[CHOOSE i \in firsts : rank(i) = p]] \o <<>>

\* list.sort(key=...): stable sort of records by their integer field key
StableSortByKey(seq) ==
  LET n == Len(seq)
      rank(i) == 1 + Cardinality({j \in 1..n :
                        \/ seq[j].key < seq[i].key
                        \/ (seq[j].key = seq[i].key /\ j < i)})
  IN  [p \in 1..n |-> seq[CHOOSE i \in 1..n : rank(i) = p]] \o <<>>

\* list.sort() of distinct strings
SortStrings(seq) ==
  LET n == Len(seq)
      rank(i) == 1 + Cardinality({j \in 1..n : StrLess(seq[j], seq[i])})
  IN  [p \in 1..n |-> seq[CHOOSE i \in 1..n : rank(i) = p]] \o <<>>

\* index of the first taxonomy entry equal to size.upper(), 0 when none
StandardIndex(size) ==
  LET up   == UpperStr(size)
      hits == {i \in 1..Len(standard_order) : up = UpperStr(standard_order[i])}
  IN  IF hits = {} THEN 0 ELSE SetMin(hits)

\* re.match(r'^\d+$', size)
IsAllDigits(size) == size # <<>> /\ \A i \in 1..Len(size) : IsDigit(size[i])

\* re.match(r'^X\d+', size.upper())
IsXDigits(size) ==
  /\ Len(size) >= 2
  /\ UpperOf[size[1]] = "X"
  /\ IsDigit(size[2])

\* int(re.findall(r'\d+', size)[0]): the first run of digits
FirstDigitRun(size) ==
  LET ds    == {i \in 1..Len(size) : IsDigit(size[i])}
      start == SetMin(ds)
      stop  == SetMax({k \in start..Len(size) : \A m \in start..k : IsDigit(size[m])})
  IN  DigitsValue(SubSeq(size, start, stop))

\* variant that puts the numeric sizes before the standard ones
CombineBuckets_numfirst(standard_sizes, numeric_sizes, custom_sizes) ==
  numeric_sizes \o standard_sizes \o custom_sizes

CombineBuckets(standard_sizes, numeric_sizes, custom_sizes) ==
  standard_sizes \o numeric_sizes \o custom_sizes

\* standard_sizes.append((idx, size))
StandardPairs(seq) ==
  [i \in 1..Len(seq) |-> [key |-> StandardIndex(seq[i]), size |-> seq[i]]] \o <<>>

\* numeric_sizes.append((int(...), size))
NumericPairs(seq) ==
  [i \in 1..Len(seq) |-> [key |-> FirstDigitRun(seq[i]), size |-> seq[i]]] \o <<>>

SizesOf(pairs) == [i \in 1..Len(pairs) |-> pairs[i].size] \o <<>>

IsStandard(z) == StandardIndex(z) # 0

IsNumericSize(z) == ~IsStandard(z) /\ (IsAllDigits(z) \/ IsXDigits(z))

IsCustomSize(z) == ~IsStandard(z) /\ ~IsNumericSize(z)

\* separate standard, numeric and custom sizes, sort each category, combine
SortBuckets(unique_sizes) ==
  CombineBuckets(
    SizesOf(StableSortByKey(StandardPairs(SelectSeq(unique_sizes, IsStandard)))),
    SizesOf(StableSortByKey(NumericPairs(SelectSeq(unique_sizes, IsNumericSize)))),
    SortStrings(SelectSeq(unique_sizes, IsCustomSize)))

\* size_quantity_map[actual_size] = int(quantity): the last token wins
QuantityMap(parsed) ==
  [z \in {parsed[i].size : i \in 1..Len(parsed)} |->
      parsed[SetMax({i \in 1..Len(parsed) : parsed[i].size = z})].qty] @@ EmptyDict

SortParsed(parsed) ==
  IF \E i \in 1..Len(parsed) : parsed[i].status # "ok"
    THEN [status |-> "OverflowError", sizes |-> <<>>, qmap |-> <<>>]
    ELSE [status |-> "ok",
          sizes |-> SortBuckets(Dedup([i \in 1..Len(parsed) |-> parsed[i].size])),
          qmap |-> QuantityMap(parsed)]

ParseAll(size_strings) ==
  [i \in 1..Len(size_strings) |-> parse_size_and_quantity(size_strings[i])] \o <<>>

sort_sizes_with_quantities(sizes_list) == SortParsed(ParseAll(SplitClean(sizes_list)))

(***************************************************************************)
(* Table cells and helpers/utils.py: get_column_value, clean_value         *)
(* A cell is missing (NaN), a text or a number.  Texts are character       *)
(* sequences; numbers and prices are counted in hundredths.  In the        *)
(* modelled tables size, colour and title cells are texts or missing.      *)
(***************************************************************************)
NaN == [k |-> "nan", s |-> <<>>, v |-> 0]

Text(str) == [k |-> "str", s |-> str, v |-> 0]

Num(h) == [k |-> "num", s |-> <<>>, v |-> h]

\* an optional number: None, or a value
None == <<>>

Some(x) == <<x>>

\* dict.get(key, default)
Get(dict, key, default) == IF key \in DOMAIN dict THEN dict[key] ELSE default

\* bool(value)
Truthy(cell) ==
  CASE cell.k = "nan" -> TRUE
    [] cell.k = "str" -> cell.s # <<>>
    [] OTHER          -> cell.v # 0

\* a or b
PyOr(a, b) == IF Truthy(a) THEN a ELSE b

get_column_value(row, column_mapping, standard_name, default) ==
  IF /\ standard_name \in DOMAIN column_mapping
     /\ column_mapping[standard_name] \in DOMAIN row
    THEN row[column_mapping[standard_name]]
    ELSE default

\* clean_value(value) of a text or missing cell: the stripped text
clean_value(value) ==
  IF \/ value.k = "nan"
     \/ value.s = <<"n","a","n">>
     \/ value.s = <<"N","a","N">>
     \/ Strip(value.s) = <<>>
    THEN <<>>
    ELSE Strip(value.s)

(***************************************************************************)
(* backend/data_processor.py: variant explosion                            *)
(***************************************************************************)
\* variant that accepts an embedded quantity of zero
extract_quantity_zero_ok(size, size_quantity_map, config) ==
  IF Get(config, "bulk_qty_mode", FALSE)
    THEN Get(config, "bulk_qty", 10)
  ELSE IF Get(config, "use_expected_qty", TRUE)
    THEN IF Get(size_quantity_map, size, 0) >= 0
           THEN Get(size_quantity_map, size, 0)
           ELSE Get(config, "fallback_qty", Get(config, "default_qty", 10))
  ELSE Get(config, "default_qty", 10)

extract_quantity(size, size_quantity_map, config) ==
  IF Get(config, "bulk_qty_mode", FALSE)
    THEN Get(config, "bulk_qty", 10)
  ELSE IF Get(config, "use_expected_qty", TRUE)
    THEN IF Get(size_quantity_map, size, 0) > 0
           THEN Get(size_quantity_map, size, 0)
           ELSE Get(config, "fallback_qty", Get(config, "default_qty", 10))
  ELSE Get(config, "default_qty", 10)

\* float(str(value).strip()) of a cell that passed the blank test, and the
\* test numeric_value >= 0; a number cell converts back to itself
AcceptedPrice(value) ==
  IF value.k = "num"
    THEN IF value.v >= 0 THEN Some(value.v) ELSE None
    ELSE LET f == PyFloat(value.s)
         IN  IF f.kind = "finite" /\ (~f.neg \/ (f.ip = 0 /\ ~f.fnz))
               THEN Some(f.hund)
               ELSE None

extract_compare_price(row, column_mapping, config) ==
  IF Get(config, "bulk_compare_price_mode", FALSE)
    THEN Some(Get(config, "bulk_compare_price", 0))
  ELSE IF Get(config, "use_expected_compare_price", TRUE)
    THEN LET compare_price_value ==
               get_column_value(row, column_mapping, "Variant_Compare_At_Price", Text(<<>>))
         IN  IF /\ Truthy(compare_price_value)
                /\ compare_price_value.k # "nan"
                /\ (compare_price_value.k = "str" => Strip(compare_price_value.s) # <<>>)
               THEN AcceptedPrice(compare_price_value)
               ELSE None
  ELSE Some(Get(config, "default_compare_price", 0))

\* size.split('-')[0].strip() if size and '-' in size else size
DisplaySize(size) ==
  IF size # <<>> /\ CountHyphen(size) > 0 THEN Strip(BeforeHyphen(size)) ELSE size

\* variant that leaves a row without colors out
ColorEntries_noplaceholder(colors) == colors

\* if not colors: colors = [""]
ColorEntries(colors) == IF colors = <<>> THEN << <<>> >> ELSE colors

\* the exploded rows of one source row, sizes outermost
ExplodeCross(idx, row, sizes, qmap, colors, price, config) ==
  [n \in 1..(Len(sizes) * Len(colors)) |->
     [idx |-> idx,
      src |-> row,
      sizes_list |-> sizes[((n - 1) \div Len(colors)) + 1],
      display_size |-> DisplaySize(sizes[((n - 1) \div Len(colors)) + 1]),
      colours_list |-> colors[((n - 1) % Len(colors)) + 1],
      extracted_quantity |->
        extract_quantity(sizes[((n - 1) \div Len(colors)) + 1], qmap, config),
      uploaded_compare_price |-> price]] \o <<>>

\* the rows of one source row, given its sorted sizes
ExplodeSorted(idx, row, sorted, colors, price, config) ==
  IF sorted.status # "ok"
    THEN [status |-> sorted.status, rows |-> <<>>]
    ELSE [status |-> "ok",
          rows |-> IF sorted.sizes = <<>>
                     THEN ExplodeCross(idx, row, << <<>> >>, (<<>> :> 0), colors, price, config)
                     ELSE ExplodeCross(idx, row, sorted.sizes, sorted.qmap, colors, price,
                                       config)]

ExplodeRow(idx, row, column_mapping, config) ==
  ExplodeSorted(idx, row,
    sort_sizes_with_quantities(clean_value(
      PyOr(get_column_value(row, column_mapping, "Option1_Value", Text(<<>>)),
           get_column_value(row, column_mapping, "size", Text(<<>>))))),
    ColorEntries(SplitClean(clean_value(
      PyOr(get_column_value(row, column_mapping, "Option2_Value", Text(<<>>)),
           get_column_value(row, column_mapping, "colour", Text(<<>>)))))),
    extract_compare_price(row, column_mapping, config),
    config)

\* the rows of the first source row followed by those of the others, or
\* the first error
ExplodeJoin(head, rest) ==
  IF head.status # "ok" THEN head
  ELSE IF rest.status # "ok" THEN rest
  ELSE [status |-> "ok", rows |-> head.rows \o rest.rows]

RECURSIVE ExplodeFrom(_, _, _, _)
\* for _, row in df_raw.iterrows(): the rows from index idx on
ExplodeFrom(idx, df_raw, column_mapping, config) ==
  IF idx > Len(df_raw) THEN [status |-> "ok", rows |-> <<>>]
  ELSE ExplodeJoin(ExplodeRow(idx, df_raw[idx], column_mapping, config),
                   ExplodeFrom(idx + 1, df_raw, column_mapping, config))

process_variants(df_raw, column_mapping, config) ==
  ExplodeFrom(1, df_raw, column_mapping, config)

(***************************************************************************)
(* backend/data_processor.py: handles, variant stores, catalog rows         *)
(***************************************************************************)
\* the subsequence of str at the positions in keep
Restrict(str, keep) ==
  [p \in 1..Cardinality(keep) |->
     str[CHOOSE i \in keep : Cardinality({j \in keep : j <= i}) = p]] \o <<>>

\* Series.astype(str).fillna("").str.strip() of one cell of an object column.
\* What astype(str) makes of a missing cell depends on the installed pandas
\* (no version is pinned): the text "nan", which fillna no longer sees, or a
\* missing value, which fillna turns into "". e.astype_str_nan is the
\* text the installed pandas ends up with.
AsTypeStrFirst(cell, e) == IF cell.k = "nan" THEN e.astype_str_nan ELSE Strip(cell.s)

\* Series.fillna("").astype(str).str.strip() of one cell
FillNaFirst(cell) == IF cell.k = "nan" THEN <<>> ELSE Strip(cell.s)

\* variant that does not collapse the runs of "-"
Slug_nocollapse(str) ==
  LET kept   == Restrict(str, {i \in 1..Len(str) : str[i] \notin {".", ",", "!"}})
      dashed == [i \in 1..Len(kept) |->
                   IF kept[i] = " " THEN "-" ELSE LowerOf[kept[i]]] \o <<>>
      inner  == {i \in 1..Len(dashed) : dashed[i] # "-"}
  IN  IF inner = {} THEN <<>> ELSE SubSeq(dashed, SetMin(inner), SetMax(inner))

\* [^\w\s-] removed, whitespace to "-", lowered, "-" runs collapsed, "-"
\* stripped at both ends (a whitespace run becomes a "-" run, which the
\* collapse reduces to the one "-" that \s+ -> "-" gives)
Slug(str) ==
  LET kept   == Restrict(str, {i \in 1..Len(str) : str[i] \notin {".", ",", "!"}})
      dashed == [i \in 1..Len(kept) |->
                   IF kept[i] = " " THEN "-" ELSE LowerOf[kept[i]]] \o <<>>
      single == Restrict(dashed, {i \in 1..Len(dashed) :
                                    ~(dashed[i] = "-" /\ i > 1 /\ dashed[i - 1] = "-")})
      inner  == {i \in 1..Len(single) : single[i] # "-"}
  IN  IF inner = {} THEN <<>> ELSE SubSeq(single, SetMin(inner), SetMax(inner))

HandleOf(row, column_mapping, e) ==
  LET title == get_column_value(row, column_mapping, "Title", Text(<<"U","n","k","n","o","w","n">>))
      code  == PyOr(get_column_value(row, column_mapping, "Variant_SKU", Text(<<>>)),
                    get_column_value(row, column_mapping, "product_code", Text(<<>>)))
  IN  Slug(AsTypeStrFirst(title, e) \o <<"-">> \o FillNaFirst(code))

\* df["Handle"] = ...: every exploded row gains the column Handle
generate_handles(rows, column_mapping, e) ==
  [n \in 1..Len(rows) |->
     rows[n] @@ [Handle |-> HandleOf(rows[n].src, column_mapping, e)]] \o <<>>

WithHandles(exploded, column_mapping, e) ==
  [status |-> exploded.status,
   rows |-> generate_handles(exploded.rows, column_mapping, e)]

\* process_data: the exploded table with handles, or the error that ended it
process_data(df_raw, column_mapping, config, e) ==
  WithHandles(process_variants(df_raw, column_mapping, config), column_mapping, e)

TitleOf(row, column_mapping) ==
  get_column_value(row, column_mapping, "Title", Text(<<"U","n","k","n","o","w","n">>))

\* the variant key of initialize_variants: clean_value of size, color, title
InitKey(r, column_mapping) ==
  << clean_value(Text(r.sizes_list)), clean_value(Text(r.colours_list)),
     clean_value(TitleOf(r.src, column_mapping)) >>

\* the variant key of _apply_variant_mappings: astype(str) of the columns
ApplyKey(r, column_mapping, e) ==
  << Strip(r.sizes_list), Strip(r.colours_list),
     AsTypeStrFirst(TitleOf(r.src, column_mapping), e) >>

\* the first row of the table that has the key
FirstWithKey(rows, column_mapping, key) ==
  rows[SetMin({n \in 1..Len(rows) : InitKey(rows[n], column_mapping) = key})]

\* initialize_variants: the session keys it sets
initialize_variants(ss, rows, column_mapping, config) ==
  LET keys == Dedup([n \in 1..Len(rows) |-> InitKey(rows[n], column_mapping)])
      keyset == {keys[i] : i \in 1..Len(keys)}
      current_default_qty == Get(config, "default_qty", 10)
      extracted_quantities ==
        [k \in keyset |-> FirstWithKey(rows, column_mapping, k).extracted_quantity]
          @@ EmptyDict
      extracted_compare_prices ==
        [k \in keyset |-> FirstWithKey(rows, column_mapping, k).uploaded_compare_price]
          @@ EmptyDict
  IN  [ss EXCEPT
         !.unique_variants = keys,
         !.variant_quantities =
            [k \in DOMAIN ss.variant_quantities \cup keyset |->
               IF k \in DOMAIN ss.variant_quantities THEN ss.variant_quantities[k]
               ELSE IF extracted_quantities[k] > 0 THEN extracted_quantities[k]
               ELSE current_default_qty] @@ EmptyDict,
         !.variant_compare_prices =
            [k \in DOMAIN ss.variant_compare_prices \cup keyset |->
               IF k \in DOMAIN ss.variant_compare_prices THEN ss.variant_compare_prices[k]
               ELSE extracted_compare_prices[k]] @@ EmptyDict,
         !.extracted_quantities = extracted_quantities,
         !.extracted_compare_prices = extracted_compare_prices]

\* render_variant_editor: every variant's two number inputs are read and
\* stored. A widget created in this run (fresh) shows its value= argument; a
\* widget kept from the previous run of the step shows what it held, which
\* is what the previous run stored; typed_qty / typed_price hold the value
\* the user has just entered into a widget.
render_variant_editor(ss, fresh, typed_qty, typed_price) ==
  LET keyset == {ss.unique_variants[i] : i \in 1..Len(ss.unique_variants)}
      extracted_qty(k) == Get(ss.extracted_quantities, k, 0)
      current_qty(k) ==
        Get(ss.variant_quantities, k,
            IF extracted_qty(k) > 0 THEN extracted_qty(k) ELSE Get(ss.config, "default_qty", 10))
      new_qty(k) == IF k \in DOMAIN typed_qty THEN typed_qty[k] ELSE current_qty(k)
      extracted_price(k) == Get(ss.extracted_compare_prices, k, None)
      display_price(k) == IF extracted_price(k) = None THEN 0 ELSE extracted_price(k)[1]
      held_price(k) ==
        IF Get(ss.variant_compare_prices, k, None) = None
          THEN 0 ELSE ss.variant_compare_prices[k][1]
      new_price(k) ==
        IF k \in DOMAIN typed_price THEN typed_price[k]
        ELSE IF fresh THEN display_price(k) ELSE held_price(k)
  IN  [ss EXCEPT
         !.variant_quantities =
            [k \in DOMAIN ss.variant_quantities \cup keyset |->
               IF k \in keyset THEN new_qty(k) ELSE ss.variant_quantities[k]] @@ EmptyDict,
         !.variant_compare_prices =
            [k \in DOMAIN ss.variant_compare_prices \cup keyset |->
               IF k \notin keyset THEN ss.variant_compare_prices[k]
               ELSE IF new_price(k) > 0 THEN Some(new_price(k)) ELSE None] @@ EmptyDict]

\* float_val = float(value); int(float_val) if float_val.is_integer() else
\* float_val, with ValueError and TypeError giving the default 0
NumericOf(f) ==
  CASE f.kind = "finite" -> [status |-> "ok", v |-> IF f.neg THEN 0 - f.hund ELSE f.hund]
    [] f.kind = "inf"    -> [status |-> "OverflowError", v |-> 0]
    [] OTHER             -> [status |-> "ok", v |-> 0]

\* clean_value(value, is_numeric=True): the number in hundredths, 0 for a
\* missing, blank or unparsable cell (int() of a NaN raises the ValueError
\* that is caught); int() of an infinity raises OverflowError
clean_numeric(value) ==
  IF value.k = "num" THEN [status |-> "ok", v |-> value.v]
  ELSE IF clean_value(value) = <<>> THEN [status |-> "ok", v |-> 0]
  ELSE NumericOf(PyFloat(value.s))

\* base_price * (1 + surcharge_percent) is a product of IEEE-754 doubles.
\* The model holds a price as its decimal value in hundredths and, for a
\* product, the units in the last place by which the double lies above the
\* double nearest to that decimal.  For the prices and percentages of the
\* inputs: 1 + 0.1 is 1.100000000000000088..., and 100 and 50 times it are
\* rounded to 110.00000000000001 and 55.00000000000001, one unit above 110.0
\* and 55.0; 1 + 0.5 and its products are exact; 1 + 0.0 is 1.
ProductUlps(base, percent) ==
  IF percent = 0 THEN 0
  ELSE ((<<10000, 10>> :> 1) @@ (<<5000, 10>> :> 1)
          @@ (<<10000, 50>> :> 0) @@ (<<5000, 50>> :> 0))[<<base, percent>>]

\* apply_surcharge(row) on the cleaned base price; a rule and the bulk
\* percentage are held in percent (rule 0.1 is 10), prices in hundredths
SurchargedPrice(base, size, rules, config) ==
  [status |-> base.status,
   v |-> IF base.v <= 0 THEN base.v
         ELSE IF Get(config, "bulk_surcharge_mode", FALSE)
           THEN (base.v * (100 + Get(config, "bulk_surcharge_percent", 0))) \div 100
         ELSE IF size \in DOMAIN rules
           THEN (base.v * (100 + rules[size])) \div 100
         ELSE base.v,
   ulps |-> IF base.v <= 0 THEN 0
            ELSE IF Get(config, "bulk_surcharge_mode", FALSE)
              THEN ProductUlps(base.v, Get(config, "bulk_surcharge_percent", 0))
            ELSE IF size \in DOMAIN rules THEN ProductUlps(base.v, rules[size])
            ELSE 0]

\* apply_surcharge with the final price of an earlier run as the base price
\* of a size that has a rule
apply_surcharge_on_final(r, column_mapping, config) ==
  IF /\ "final_variant_price" \in DOMAIN r
     /\ UpperStr(Strip(r.display_size)) \in DOMAIN Get(config, "surcharge_rules", EmptyDict)
    THEN [status |-> "ok",
          v |-> (r.final_variant_price
                   * (100 + Get(config, "surcharge_rules", EmptyDict)[UpperStr(Strip(r.display_size))]))
                \div 100,
          ulps |-> 0]
    ELSE SurchargedPrice(
           clean_numeric(get_column_value(r.src, column_mapping, "Variant_Price", Num(0))),
           UpperStr(Strip(r.display_size)),
           Get(config, "surcharge_rules", EmptyDict),
           config)

apply_surcharge(r, column_mapping, config) ==
  SurchargedPrice(
    clean_numeric(get_column_value(r.src, column_mapping, "Variant_Price", Num(0))),
    UpperStr(Strip(r.display_size)),
    Get(config, "surcharge_rules", EmptyDict),
    config)

\* df['final_variant_price'] = df.apply(apply_surcharge, axis=1)
WithFinalPrice(rows, priced) ==
  IF \E n \in 1..Len(rows) : priced[n].status # "ok"
    THEN [status |-> priced[SetMin({n \in 1..Len(rows) : priced[n].status # "ok"})].status,
          rows |-> rows]
    ELSE [status |-> "ok",
          rows |-> [n \in 1..Len(rows) |->
                      [final_variant_price |-> priced[n].v,
                       final_variant_price_ulps |-> priced[n].ulps] @@ rows[n]] \o <<>>]

\* _apply_size_surcharges: the table gains (or overwrites) the column
\* final_variant_price when surcharges are enabled, and is returned as is
\* otherwise
apply_size_surcharges(rows, column_mapping, config) ==
  IF ~Get(config, "enable_surcharge", FALSE) THEN [status |-> "ok", rows |-> rows]
  ELSE WithFinalPrice(rows, [n \in 1..Len(rows) |->
                               apply_surcharge(rows[n], column_mapping, config)] \o <<>>)

\* lambda x: None if pd.isna(x) or x == '' else float(x) if x != 0 else None
KeptComparePrice(x) == IF x = None \/ x[1] = 0 THEN None ELSE x

\* _apply_variant_mappings: the columns _variant_key, Variant Inventory Qty
\* and Variant Compare At Price are set on the table. The session always
\* holds variant_quantities and variant_compare_prices (SessionManager
\* .initialize creates them in every run), so the store branches are taken
\* whenever the bulk modes are off.
apply_variant_mappings(ss, rows, column_mapping, config, e) ==
  [n \in 1..Len(rows) |->
     LET key == ApplyKey(rows[n], column_mapping, e)
         qty == IF Get(config, "bulk_qty_mode", FALSE)
                  THEN Get(config, "bulk_qty", 10)
                  ELSE Get(ss.variant_quantities, key, Get(config, "default_qty", 10))
         price == IF Get(config, "bulk_compare_price_mode", FALSE)
                    THEN Some(Get(config, "bulk_compare_price", 0))
                    ELSE Get(ss.variant_compare_prices, key, None)
     IN  [_variant_key |-> key,
          Variant_Inventory_Qty |-> qty,
          Variant_Compare_At_Price |-> KeptComparePrice(price)] @@ rows[n]] \o <<>>

\* position of the first element of seq equal to x, 0 when there is none
IndexIn(seq, x) ==
  IF \E i \in 1..Len(seq) : seq[i] = x
    THEN SetMin({i \in 1..Len(seq) : seq[i] = x}) ELSE 0

\* the sort key's first part: the rank of the row's size, or 999
SizeIdx(sorted_sizes, size) ==
  IF IndexIn(sorted_sizes, size) = 0 THEN 999 ELSE IndexIn(sorted_sizes, size) - 1

\* group_list.sort(key=sort_key): whether the key of row a is below, or
\* equal to, the key (size_idx, color) of row b
KeyBefore(sorted_sizes, a, b) ==
  \/ SizeIdx(sorted_sizes, a.sizes_list) < SizeIdx(sorted_sizes, b.sizes_list)
  \/ /\ SizeIdx(sorted_sizes, a.sizes_list) = SizeIdx(sorted_sizes, b.sizes_list)
     /\ StrLess(a.colours_list, b.colours_list)

KeySame(sorted_sizes, a, b) ==
  /\ SizeIdx(sorted_sizes, a.sizes_list) = SizeIdx(sorted_sizes, b.sizes_list)
  /\ a.colours_list = b.colours_list

GroupRank(rows, group, sorted_sizes, i) ==
  1 + Cardinality({j \in 1..Len(group) :
         \/ KeyBefore(sorted_sizes, rows[group[j]], rows[group[i]])
         \/ (KeySame(sorted_sizes, rows[group[j]], rows[group[i]]) /\ j < i)})

GroupOrder(rows, group, sorted) ==
  [status |-> sorted.status,
   order  |-> IF sorted.status # "ok" THEN <<>>
              ELSE [p \in 1..Len(group) |->
                      group[CHOOSE i \in 1..Len(group) :
                              GroupRank(rows, group, sorted.sizes, i) = p]] \o <<>>]

\* _sort_variants_in_group: the positions of one Handle group, ordered by
\* (rank of the size among the group's sorted sizes or 999, color), stable
sort_variants_in_group(rows, group) ==
  GroupOrder(rows, group,
    sort_sizes_with_quantities(
      JoinComma(Dedup([i \in 1..Len(group) |-> rows[group[i]].sizes_list] \o <<>>))))

\* column_order of _reorder_columns_to_shopify_format: the columns of the
\* catalog, in order
column_order ==
  <<"Handle", "Title", "Body (HTML)", "Vendor", "Product Category", "Type",
     "Tags", "Published", "Option1 Name", "Option1 Value",
     "Option1 Linked To", "Option2 Name", "Option2 Value",
     "Option2 Linked To", "Option3 Name", "Option3 Value",
     "Option3 Linked To", "Variant SKU", "Variant Grams",
     "Variant Inventory Tracker", "Variant Inventory Qty",
     "Variant Inventory Policy", "Variant Fulfillment Service",
     "Variant Price", "Variant Compare At Price",
     "Variant Requires Shipping", "Variant Taxable",
     "Unit Price Total Measure", "Unit Price Total Measure Unit",
     "Unit Price Base Measure", "Unit Price Base Measure Unit",
     "Variant Barcode", "Image Src", "Image Position", "Image Alt Text",
     "Gift Card", "SEO Title", "SEO Description",
     "Google Shopping / Google Product Category", "Google Shopping / Gender",
     "Google Shopping / Age Group", "Google Shopping / MPN",
     "Google Shopping / Condition", "Google Shopping / Custom Product",
     "Google Shopping / Custom Label 0", "Google Shopping / Custom Label 1",
     "Google Shopping / Custom Label 2", "Google Shopping / Custom Label 3",
     "Google Shopping / Custom Label 4",
     "Gender (product.metafields.custom.gender)",
     "Google: Custom Product (product.metafields.mm-google-shopping.custom_product)",
     "Age group (product.metafields.shopify.age-group)",
     "Color (product.metafields.shopify.color-pattern)",
     "Dress occasion (product.metafields.shopify.dress-occasion)",
     "Dress style (product.metafields.shopify.dress-style)",
     "Fabric (product.metafields.shopify.fabric)",
     "Neckline (product.metafields.shopify.neckline)",
     "Size (product.metafields.shopify.size)",
     "Skirt/Dress length type (product.metafields.shopify.skirt-dress-length-type)",
     "Sleeve length type (product.metafields.shopify.sleeve-length-type)",
     "Target gender (product.metafields.shopify.target-gender)",
     "Complementary products (product.metafields.shopify--discovery--product_recommendation.complementary_products)",
     "Related products (product.metafields.shopify--discovery--product_recommendation.related_products)",
     "Related products settings (product.metafields.shopify--discovery--product_recommendation.related_products_display)",
     "Search product boosts (product.metafields.shopify--discovery--product_search_boost.queries)",
     "Variant Image", "Variant Weight Unit", "Variant Tax Code",
     "Cost per item", "Status" >>

\* the keys of the dict that _create_main_product_row returns, in order
main_product_row_columns ==
  <<"Handle", "Title", "Body (HTML)", "Vendor", "Product Category", "Type",
     "Tags", "Published", "Option1 Name", "Option1 Value",
     "Option1 Linked To", "Option2 Name", "Option2 Value",
     "Option2 Linked To", "Option3 Name", "Option3 Value",
     "Option3 Linked To", "Variant SKU", "Variant Grams",
     "Variant Inventory Tracker", "Variant Inventory Qty",
     "Variant Inventory Policy", "Variant Fulfillment Service",
     "Variant Price", "Variant Compare At Price",
     "Variant Requires Shipping", "Variant Taxable",
     "Unit Price Total Measure", "Unit Price Total Measure Unit",
     "Unit Price Base Measure", "Unit Price Base Measure Unit",
     "Variant Barcode", "Image Src", "Image Position", "Image Alt Text",
     "Gift Card", "SEO Title", "SEO Description",
     "Google Shopping / Google Product Category", "Google Shopping / Gender",
     "Google Shopping / Age Group", "Google Shopping / MPN",
     "Google Shopping / Condition", "Google Shopping / Custom Product",
     "Google Shopping / Custom Label 0", "Google Shopping / Custom Label 1",
     "Google Shopping / Custom Label 2", "Google Shopping / Custom Label 3",
     "Google Shopping / Custom Label 4",
     "Gender (product.metafields.custom.gender)",
     "Google: Custom Product (product.metafields.mm-google-shopping.custom_product)",
     "Age group (product.metafields.shopify.age-group)",
     "Color (product.metafields.shopify.color-pattern)",
     "Dress occasion (product.metafields.shopify.dress-occasion)",
     "Dress style (product.metafields.shopify.dress-style)",
     "Fabric (product.metafields.shopify.fabric)",
     "Neckline (product.metafields.shopify.neckline)",
     "Size (product.metafields.shopify.size)",
     "Skirt/Dress length type (product.metafields.shopify.skirt-dress-length-type)",
     "Sleeve length type (product.metafields.shopify.sleeve-length-type)",
     "Target gender (product.metafields.shopify.target-gender)",
     "Complementary products (product.metafields.shopify--discovery--product_recommendation.complementary_products)",
     "Related products (product.metafields.shopify--discovery--product_recommendation.related_products)",
     "Related products settings (product.metafields.shopify--discovery--product_recommendation.related_products_display)",
     "Search product boosts (product.metafields.shopify--discovery--product_search_boost.queries)",
     "Variant Image", "Variant Weight Unit", "Variant Tax Code",
     "Cost per item", "Status" >>

\* variant in which the subordinate row has no Status
variant_row_columns_nostatus ==
  <<"Handle", "Title", "Body (HTML)", "Vendor", "Product Category", "Type",
     "Tags", "Published", "Option1 Name", "Option1 Value",
     "Option1 Linked To", "Option2 Name", "Option2 Value",
     "Option2 Linked To", "Option3 Name", "Option3 Value",
     "Option3 Linked To", "Variant SKU", "Variant Grams",
     "Variant Inventory Tracker", "Variant Inventory Qty",
     "Variant Inventory Policy", "Variant Fulfillment Service",
     "Variant Price", "Variant Compare At Price",
     "Variant Requires Shipping", "Variant Taxable",
     "Unit Price Total Measure", "Unit Price Total Measure Unit",
     "Unit Price Base Measure", "Unit Price Base Measure Unit",
     "Variant Barcode", "Image Src", "Image Position", "Image Alt Text",
     "Gift Card", "SEO Title", "SEO Description",
     "Google Shopping / Google Product Category", "Google Shopping / Gender",
     "Google Shopping / Age Group", "Google Shopping / MPN",
     "Google Shopping / Condition", "Google Shopping / Custom Product",
     "Google Shopping / Custom Label 0", "Google Shopping / Custom Label 1",
     "Google Shopping / Custom Label 2", "Google Shopping / Custom Label 3",
     "Google Shopping / Custom Label 4",
     "Gender (product.metafields.custom.gender)",
     "Google: Custom Product (product.metafields.mm-google-shopping.custom_product)",
     "Age group (product.metafields.shopify.age-group)",
     "Color (product.metafields.shopify.color-pattern)",
     "Dress occasion (product.metafields.shopify.dress-occasion)",
     "Dress style (product.metafields.shopify.dress-style)",
     "Fabric (product.metafields.shopify.fabric)",
     "Neckline (product.metafields.shopify.neckline)",
     "Size (product.metafields.shopify.size)",
     "Skirt/Dress length type (product.metafields.shopify.skirt-dress-length-type)",
     "Sleeve length type (product.metafields.shopify.sleeve-length-type)",
     "Target gender (product.metafields.shopify.target-gender)",
     "Complementary products (product.metafields.shopify--discovery--product_recommendation.complementary_products)",
     "Related products (product.metafields.shopify--discovery--product_recommendation.related_products)",
     "Related products settings (product.metafields.shopify--discovery--product_recommendation.related_products_display)",
     "Search product boosts (product.metafields.shopify--discovery--product_search_boost.queries)",
     "Variant Image", "Variant Weight Unit", "Variant Tax Code",
     "Cost per item" >>

\* the keys of the dict that _create_variant_row returns, in order
variant_row_columns ==
  <<"Handle", "Title", "Body (HTML)", "Vendor", "Product Category", "Type",
     "Tags", "Published", "Option1 Name", "Option1 Value",
     "Option1 Linked To", "Option2 Name", "Option2 Value",
     "Option2 Linked To", "Option3 Name", "Option3 Value",
     "Option3 Linked To", "Variant SKU", "Variant Grams",
     "Variant Inventory Tracker", "Variant Inventory Qty",
     "Variant Inventory Policy", "Variant Fulfillment Service",
     "Variant Price", "Variant Compare At Price",
     "Variant Requires Shipping", "Variant Taxable",
     "Unit Price Total Measure", "Unit Price Total Measure Unit",
     "Unit Price Base Measure", "Unit Price Base Measure Unit",
     "Variant Barcode", "Image Src", "Image Position", "Image Alt Text",
     "Gift Card", "SEO Title", "SEO Description",
     "Google Shopping / Google Product Category", "Google Shopping / Gender",
     "Google Shopping / Age Group", "Google Shopping / MPN",
     "Google Shopping / Condition", "Google Shopping / Custom Product",
     "Google Shopping / Custom Label 0", "Google Shopping / Custom Label 1",
     "Google Shopping / Custom Label 2", "Google Shopping / Custom Label 3",
     "Google Shopping / Custom Label 4",
     "Gender (product.metafields.custom.gender)",
     "Google: Custom Product (product.metafields.mm-google-shopping.custom_product)",
     "Age group (product.metafields.shopify.age-group)",
     "Color (product.metafields.shopify.color-pattern)",
     "Dress occasion (product.metafields.shopify.dress-occasion)",
     "Dress style (product.metafields.shopify.dress-style)",
     "Fabric (product.metafields.shopify.fabric)",
     "Neckline (product.metafields.shopify.neckline)",
     "Size (product.metafields.shopify.size)",
     "Skirt/Dress length type (product.metafields.shopify.skirt-dress-length-type)",
     "Sleeve length type (product.metafields.shopify.sleeve-length-type)",
     "Target gender (product.metafields.shopify.target-gender)",
     "Complementary products (product.metafields.shopify--discovery--product_recommendation.complementary_products)",
     "Related products (product.metafields.shopify--discovery--product_recommendation.related_products)",
     "Related products settings (product.metafields.shopify--discovery--product_recommendation.related_products_display)",
     "Search product boosts (product.metafields.shopify--discovery--product_search_boost.queries)",
     "Variant Image", "Variant Weight Unit", "Variant Tax Code",
     "Cost per item", "Status" >>

\* price = clean_value(row.get('final_variant_price', get_column_value(...,
\* 'Variant Price', 0)), is_numeric=True)
RowPrice(r, column_mapping) ==
  clean_numeric(
    IF "final_variant_price" \in DOMAIN r THEN Num(r.final_variant_price)
    ELSE get_column_value(r.src, column_mapping, "Variant_Price", Num(0)))

\* the fields of a catalog row that the two row builders compute alike; the
\* compare price is None for the blank cell ''; the price is the decimal in
\* hundredths and the units in the last place of the float above it
\* (clean_value leaves a float that is no whole number as it is)
VariantFields(r, price, column_mapping, config) ==
  [status |-> price.status,
   Option1_Value |-> clean_value(Text(r.display_size)),
   Option2_Value |-> clean_value(Text(r.colours_list)),
   Variant_SKU |-> clean_value(PyOr(get_column_value(r.src, column_mapping, "Variant_SKU", Text(<<>>)),
                                    get_column_value(r.src, column_mapping, "product_code", Text(<<>>)))),
   Variant_Inventory_Qty |-> Get(r, "Variant_Inventory_Qty", 0),
   Variant_Inventory_Policy |-> Get(config, "inventory_policy", "deny"),
   Variant_Price |-> price.v,
   Variant_Price_ulps |-> Get(r, "final_variant_price_ulps", 0),
   Variant_Compare_At_Price |-> KeptComparePrice(Get(r, "Variant_Compare_At_Price", None))]

\* body_html of _create_main_product_row: the enhanced description of the
\* row when the table has the column and the cell is not missing, else the
\* mapped description in a paragraph, else nothing (the AI service, which
\* alone sets enhanced_body, is not enabled)
body_html(row, column_mapping) ==
  IF "enhanced_description" \in DOMAIN row /\ row.enhanced_description.k # "nan"
    THEN row.enhanced_description.s
  ELSE IF clean_value(get_column_value(row, column_mapping, "Body_HTML", Text(<<>>))) # <<>>
    THEN <<"<","p",">">>
           \o clean_value(get_column_value(row, column_mapping, "Body_HTML", Text(<<>>)))
           \o <<"<","/","p",">">>
  ELSE <<>>

\* _create_main_product_row, on the columns the model follows; origin is
\* the position of the exploded row the catalog row was built from
create_main_product_row(r, origin, column_mapping, config) ==
  VariantFields(r, RowPrice(r, column_mapping), column_mapping, config) @@
      [origin |-> origin,
       keys |-> main_product_row_columns,
       Handle |-> clean_value(Text(Get(r, "Handle", <<>>))),
       Title |-> clean_value(TitleOf(r.src, column_mapping)),
       Body_HTML |-> body_html(r.src, column_mapping),
       Vendor |-> Get(config, "vendor_name", "YourBrandName"),
       Tags |-> clean_value(Get(r.src, "ai_tags", Text(<<>>))),
       Published |->
         IF LowerStr(clean_value(get_column_value(r.src, column_mapping, "published",
                                                  Text(<<>>))))
              = <<"a","c","t","i","v","e">>
           THEN "TRUE" ELSE "FALSE",
       Option1_Name |-> IF clean_value(Text(r.display_size)) # <<>> THEN "Size" ELSE "",
       Option2_Name |-> IF clean_value(Text(r.colours_list)) # <<>> THEN "Color" ELSE "",
       Status |-> "draft"]

\* _create_variant_row; the product-level columns it leaves out are missing
\* in the frame and blank after the final clean-up
create_variant_row(r, origin, column_mapping, handle, config) ==
  VariantFields(r, RowPrice(r, column_mapping), column_mapping, config) @@
      [origin |-> origin,
       keys |-> variant_row_columns,
       Handle |-> clean_value(Text(handle)),
       Title |-> <<>>, Body_HTML |-> <<>>, Vendor |-> "", Tags |-> <<>>,
       Published |-> "", Option1_Name |-> "", Option2_Name |-> "",
       Status |-> ""]

\* fillna('').astype(str).replace(['nan', 'NaN', 'None'], '') of a text cell
CleanupText(str) ==
  IF str \in {<<"n","a","n">>, <<"N","a","N">>, <<"N","o","n","e">>} THEN <<>> ELSE str

\* the final clean-up of generate_shopify_csv on one catalog row
CleanupRow(o) ==
  [o EXCEPT !.Handle = CleanupText(@), !.Title = CleanupText(@),
            !.Body_HTML = CleanupText(@), !.Tags = CleanupText(@),
            !.Option1_Value = CleanupText(@), !.Option2_Value = CleanupText(@),
            !.Variant_SKU = CleanupText(@)]

RECURSIVE Flatten(_)
Flatten(seqs) == IF seqs = <<>> THEN <<>> ELSE Head(seqs) \o Flatten(Tail(seqs))

\* variant that keeps only the first member of a Handle group
GroupOf_first(df, handle) ==
  <<SetMin({n \in 1..Len(df) : df[n].Handle = handle})>>

\* the members of the Handle group, in table order
GroupOf(df, handle) ==
  Restrict([n \in 1..Len(df) |-> n], {n \in 1..Len(df) : df[n].Handle = handle})

\* variant that builds every row of a group as a main product row
BuildGroup_allmain(df, order, handle, column_mapping, config) ==
  [i \in 1..Len(order) |->
     create_main_product_row(df[order[i]], order[i], column_mapping, config)] \o <<>>

\* for idx, row in enumerate(sorted_group): the catalog rows of one group
BuildGroup(df, order, handle, column_mapping, config) ==
  [i \in 1..Len(order) |->
     IF i = 1
       THEN create_main_product_row(df[order[i]], order[i], column_mapping, config)
       ELSE create_variant_row(df[order[i]], order[i], column_mapping, handle, config)]
    \o <<>>

\* the frame of the rows built, with the columns that
\* _reorder_columns_to_shopify_format selects (a column of column_order that
\* no row has is added first, so the selection is column_order itself),
\* cleaned up; or the first error
FinishCatalog(df, groups, grouped_data) ==
  IF \E g \in 1..Len(groups) : groups[g].status # "ok"
    THEN [status |-> groups[SetMin({g \in 1..Len(groups) : groups[g].status # "ok"})].status,
          rows |-> <<>>, columns |-> <<>>, table |-> df]
  ELSE IF \E i \in 1..Len(grouped_data) : grouped_data[i].status # "ok"
    THEN [status |-> grouped_data[SetMin({i \in 1..Len(grouped_data) :
                                            grouped_data[i].status # "ok"})].status,
          rows |-> <<>>, columns |-> <<>>, table |-> df]
  ELSE [status |-> "ok",
        rows |-> [i \in 1..Len(grouped_data) |-> CleanupRow(grouped_data[i])] \o <<>>,
        columns |-> column_order,
        table |-> df]

BuildCatalog(df, handles, groups, column_mapping, config) ==
  FinishCatalog(df, groups,
    Flatten([g \in 1..Len(handles) |->
               BuildGroup(df, groups[g].order, handles[g], column_mapping, config)] \o <<>>))

\* for handle, group in df.groupby("Handle"): the groups by ascending Handle
GroupCatalog(df, handles, column_mapping, config) ==
  BuildCatalog(df, handles,
    [g \in 1..Len(handles) |-> sort_variants_in_group(df, GroupOf(df, handles[g]))] \o <<>>,
    column_mapping, config)

MapCatalog(df, column_mapping, config) ==
  GroupCatalog(df, SortStrings(Dedup([n \in 1..Len(df) |-> df[n].Handle] \o <<>>)),
               column_mapping, config)

ChargedCatalog(ss, rows, charged, column_mapping, e) ==
  IF charged.status # "ok"
    THEN [status |-> charged.status, rows |-> <<>>, columns |-> <<>>, table |-> rows]
    ELSE MapCatalog(apply_variant_mappings(ss, charged.rows, column_mapping, ss.config, e),
                    column_mapping, ss.config)

\* generate_shopify_csv: status, the catalog, and the exploded table as the
\* run leaves it (the surcharge and mapping columns are set on the table
\* that the session holds).  The config is the session's.
generate_shopify_csv(ss, rows, column_mapping, e) ==
  ChargedCatalog(ss, rows, apply_size_surcharges(rows, column_mapping, ss.config),
                 column_mapping, e)

\* str2 in str1
Contains(str1, str2) ==
  \E i \in 1..(Len(str1) - Len(str2) + 1) : SubSeq(str1, i, i + Len(str2) - 1) = str2

(***************************************************************************)
(* Descriptions: core/workflow_manager.py _generate_description_html and   *)
(* helpers/description_generator.py _generate_dynamic_description.  An     *)
(* element is [column, label, html_tag]; the builder numbers the elements  *)
(* in list order, so sorting them by 'order' keeps the list as it is.      *)
(***************************************************************************)
\* the options of the HTML tag selectbox of the description builder
html_tags ==
  <<<<"p">>, <<"h","3">>, <<"h","4">>, <<"s","t","r","o","n","g">>, <<"l","i">>, <<"d","i","v">>, <<"b","r">>, <<"n","o","n","e">>>>

\* the spelling of the column names of the raw table
ColumnChars ==
  [fabric |-> <<"f","a","b","r","i","c">>, qty |-> <<"q","t","y">>,
   Desc |-> <<"D","e","s","c">>]

RECURSIVE StrOfNat(_)
\* str(n) of a natural number
StrOfNat(n) ==
  IF n < 10 THEN <<DigitChars[n + 1]>>
  ELSE StrOfNat(n \div 10) \o <<DigitChars[(n % 10) + 1]>>

\* str(n) of an int
StrOfInt(n) == IF n < 0 THEN <<"-">> \o StrOfNat(0 - n) ELSE StrOfNat(n)

\* WorkflowManager._clean_value: "" for a missing or blank cell, else the
\* stripped text
html_clean_value(value) ==
  IF value.k = "nan" \/ Strip(value.s) = <<>> THEN <<>> ELSE Strip(value.s)

\* any(field in column_lower for field in integer_fields)
should_be_integer(column_name) ==
  \E field \in {<<"n","o"," ","o","f"," ","c","o","m","p","o","n","e","n","t","s">>,
               <<"c","o","m","p","o","n","e","n","t","s">>,
               <<"n","u","m","b","e","r","_","o","f","_","c","o","m","p","o","n","e","n","t","s">>,
               <<"c","o","m","p","o","n","e","n","t","_","c","o","u","n","t">>,
               <<"q","u","a","n","t","i","t","y">>,
               <<"q","t","y">>,
               <<"c","o","u","n","t">>,
               <<"p","i","e","c","e","s">>,
               <<"s","e","t">>,
               <<"i","t","e","m","s">>,
               <<"n","u","m","b","e","r">>,
               <<"n","o">>} :
     Contains(LowerStr(column_name), field)

\* the numeric branch of _clean_value_no_decimals: int() of an infinity
\* raises OverflowError, which the handler does not catch; of a nan it
\* raises ValueError, which it does
NoDecimals(text, f, integer) ==
  CASE f.kind = "finite" ->
         [status |-> "ok", s |-> IF integer \/ ~f.fnz THEN StrOfInt(PyInt(f)) ELSE text]
    [] f.kind = "inf" -> [status |-> "OverflowError", s |-> <<>>]
    [] OTHER -> [status |-> "ok", s |-> text]

\* DescriptionGenerator._clean_value_no_decimals
clean_value_no_decimals(value, column_name) ==
  IF value.k = "nan" \/ Strip(value.s) = <<>> THEN [status |-> "ok", s |-> <<>>]
  ELSE NoDecimals(Strip(value.s), PyFloat(value.s), should_be_integer(column_name))

\* f"<{html_tag}>"
OpenTag(html_tag) == <<"<">> \o html_tag \o <<">">>

\* f"</{html_tag}>"
CloseTag(html_tag) == <<"<", "/">> \o html_tag \o <<">">>

\* label and label.strip()
HasLabel(label) == Strip(label) # <<>>

\* the fragment of _generate_description_html for a value that is not empty
html_fragment(label, html_tag, value) ==
  IF HasLabel(label)
    THEN CASE html_tag = <<"n","o","n","e">> -> label \o <<":", " ">> \o value
           [] html_tag = <<"b","r">> -> label \o <<":", " ">> \o value \o OpenTag(<<"b","r">>)
           [] html_tag = <<"l","i">> ->
                OpenTag(html_tag) \o label \o <<":", " ">> \o value \o CloseTag(html_tag)
           [] html_tag = <<"p">> ->
                OpenTag(html_tag) \o label \o <<":", " ">> \o value \o CloseTag(html_tag)
           [] OTHER ->
                OpenTag(<<"p">>) \o OpenTag(html_tag) \o label \o <<" ", ":", " ">>
                  \o CloseTag(html_tag) \o <<" ">> \o value \o CloseTag(<<"p">>)
    ELSE CASE html_tag = <<"n","o","n","e">> -> value
           [] html_tag = <<"b","r">> -> value \o OpenTag(<<"b","r">>)
           [] html_tag = <<"l","i">> -> OpenTag(html_tag) \o value \o CloseTag(html_tag)
           [] html_tag = <<"p">> -> OpenTag(html_tag) \o value \o CloseTag(html_tag)
           [] OTHER ->
                OpenTag(<<"p">>) \o OpenTag(html_tag) \o value \o CloseTag(html_tag)
                  \o CloseTag(<<"p">>)

\* the fragment of _generate_dynamic_description for a value that is not
\* empty: 'p' has no branch of its own
dynamic_fragment(label, html_tag, value) ==
  IF HasLabel(label)
    THEN CASE html_tag = <<"n","o","n","e">> -> label \o <<":", " ">> \o value
           [] html_tag = <<"b","r">> -> label \o <<":", " ">> \o value \o OpenTag(<<"b","r">>)
           [] html_tag = <<"l","i">> ->
                OpenTag(html_tag) \o label \o <<":", " ">> \o value \o CloseTag(html_tag)
           [] OTHER ->
                OpenTag(<<"p">>) \o OpenTag(html_tag) \o label \o <<" ", ":", " ">>
                  \o CloseTag(html_tag) \o <<" ">> \o value \o CloseTag(<<"p">>)
    ELSE CASE html_tag = <<"n","o","n","e">> -> value
           [] html_tag = <<"b","r">> -> value \o OpenTag(<<"b","r">>)
           [] html_tag = <<"l","i">> -> OpenTag(html_tag) \o value \o CloseTag(html_tag)
           [] OTHER ->
                OpenTag(<<"p">>) \o OpenTag(html_tag) \o value \o CloseTag(html_tag)
                  \o CloseTag(<<"p">>)

\* column and column in row.index
HasColumn(element, row) == element.column # "" /\ element.column \in DOMAIN row

\* what one element adds to html_parts in _generate_description_html
HtmlPart(element, row) ==
  IF HasColumn(element, row) /\ html_clean_value(row[element.column]) # <<>>
    THEN <<html_fragment(element.label, element.html_tag,
                         html_clean_value(row[element.column]))>>
    ELSE <<>>

\* the cleaned value of an element's cell in _generate_dynamic_description
DynamicValue(element, row) ==
  IF HasColumn(element, row)
    THEN clean_value_no_decimals(row[element.column], ColumnChars[element.column])
    ELSE [status |-> "ok", s |-> <<>>]

\* what one element adds to html_parts in _generate_dynamic_description
DynamicPart(element, cleaned) ==
  IF cleaned.s # <<>>
    THEN <<dynamic_fragment(element.label, element.html_tag, cleaned.s)>>
    ELSE <<>>

RECURSIVE JoinSpace(_)
\* " ".join(html_parts)
JoinSpace(html_parts) ==
  IF html_parts = <<>> THEN <<>>
  ELSE IF Len(html_parts) = 1 THEN html_parts[1]
  ELSE html_parts[1] \o <<" ">> \o JoinSpace(Tail(html_parts))

\* the parts of _generate_description_html, per element
HtmlParts(elements, row) ==
  [i \in 1..Len(elements) |-> HtmlPart(elements[i], row)] \o <<>>

\* the parts of _generate_dynamic_description, per element: an exception
\* in any element makes the whole description ""
DynamicParts(elements, row) ==
  [i \in 1..Len(elements) |->
     IF \E j \in 1..Len(elements) : DynamicValue(elements[j], row).status # "ok"
       THEN <<>>
       ELSE DynamicPart(elements[i], DynamicValue(elements[i], row))] \o <<>>

\* _generate_description_html
generate_description_html(elements, row) == JoinSpace(Flatten(HtmlParts(elements, row)))

\* _generate_dynamic_description
generate_dynamic_description(description_elements, row) ==
  JoinSpace(Flatten(DynamicParts(description_elements, row)))

\* execute_data_processing on one row: the description column is written
\* when there are elements
execute_data_processing_row(description_elements, row) ==
  IF description_elements = <<>> THEN row
  ELSE ("enhanced_description" :>
          Text(generate_description_html(description_elements, row))) @@ row

\* apply_enhanced_descriptions on one row: with elements, the description
\* column is written again
apply_enhanced_descriptions(description_elements, row) ==
  IF description_elements = <<>> THEN row
  ELSE ("enhanced_description" :>
          Text(generate_dynamic_description(description_elements, row))) @@ row

\* execute_csv_generation on one row, up to the description it hands to
\* generate_shopify_csv
execute_csv_generation_row(description_elements, row) ==
  apply_enhanced_descriptions(description_elements,
    IF "enhanced_description" \notin DOMAIN row /\ description_elements # <<>>
      THEN ("enhanced_description" :>
              Text(generate_description_html(description_elements, row))) @@ row
      ELSE row)

(***************************************************************************)
(* core/session_manager.py, frontend/ui_components.py: the session          *)
(***************************************************************************)
\* dict[key] = value
Put(dict, key, value) == (key :> value) @@ dict

\* SessionManager.initialize on an empty st.session_state
FreshSession ==
  [step |-> 1,
   df_raw |-> None,
   mapping_started |-> FALSE,
   column_mapping |-> EmptyDict,
   description_elements |-> <<>>,
   processed_data |-> None,
   config |-> [mode |-> "Default template (no AI)",
               vendor_name |-> "YourBrandName",
               inventory_policy |-> "deny",
               default_qty |-> 10,
               default_compare_price |-> 0,
               enable_surcharge |-> FALSE,
               surcharge_rules |-> EmptyDict,
               bulk_qty_mode |-> FALSE,
               bulk_compare_price_mode |-> FALSE],
   variant_quantities |-> EmptyDict,
   variant_compare_prices |-> EmptyDict,
   unique_variants |-> <<>>,
   extracted_quantities |-> EmptyDict,
   extracted_compare_prices |-> EmptyDict]

\* a page before its first run: no file in the uploader, no buttons
\* error is the failure the page reports with st.error, "" when none
BlankPage == [uploaded_file |-> FALSE, nav |-> FALSE, error |-> ""]

\* the session variables outside the session specification
NoSession ==
  /\ st = FreshSession
  /\ ui = BlankPage
  /\ shopify_csv = [status |-> "none"]
  /\ env = [astype_str_nan |-> <<"n","a","n">>]
  /\ used = [uploads |-> 0, edits |-> 0]

\* render_sidebar_config: the config the sidebar widgets give back.  change
\* is what the user has set in one group of the sidebar: the checkbox
\* change.widget set to change.on and, when on, the input under it set to
\* change.value (for the surcharge, the one rule row set to size
\* change.size at change.value percent); widget "none": nothing is changed.
\* An input the user has not set appears with the value the config holds,
\* or with its default.  (The runs between the changes of one group differ
\* from this one only in the config they store.)
SidebarBulkQty(c, change) ==
  IF (IF change.widget = "bulk_qty_mode" THEN change.on ELSE Get(c, "bulk_qty_mode", FALSE))
    THEN Put(Put(c, "bulk_qty_mode", TRUE), "bulk_qty",
             IF change.widget = "bulk_qty_mode" THEN change.value
             ELSE Get(c, "bulk_qty", c.default_qty))
    ELSE Put(c, "bulk_qty_mode", FALSE)

SidebarBulkComparePrice(c, change) ==
  IF (IF change.widget = "bulk_compare_price_mode" THEN change.on
      ELSE Get(c, "bulk_compare_price_mode", FALSE))
    THEN Put(Put(c, "bulk_compare_price_mode", TRUE), "bulk_compare_price",
             IF change.widget = "bulk_compare_price_mode" THEN change.value
             ELSE Get(c, "bulk_compare_price", 0))
    ELSE Put(c, "bulk_compare_price_mode", FALSE)

SidebarSurcharge(c, change) ==
  IF change.widget = "enable_surcharge"
    THEN Put(Put(c, "enable_surcharge", change.on), "surcharge_rules",
             IF ~change.on THEN Get(c, "surcharge_rules", EmptyDict)
             ELSE IF change.size # <<>> /\ change.value > 0
               THEN (change.size :> change.value)
             ELSE EmptyDict)
    ELSE Put(Put(c, "enable_surcharge", Get(c, "enable_surcharge", FALSE)),
             "surcharge_rules", Get(c, "surcharge_rules", EmptyDict))

render_sidebar_config(config, change) ==
  SidebarSurcharge(
    SidebarBulkComparePrice(
      Put(SidebarBulkQty(Put(config, "default_qty", Get(config, "default_qty", 10)), change),
          "default_compare_price", Get(config, "default_compare_price", 0)),
      change),
    change)

NoChange == [widget |-> "none", on |-> FALSE, value |-> 0, size |-> <<>>]

\* session.set('processed_data', processed_df), when processing succeeded
StoreProcessed(s, processed) ==
  IF processed.status = "ok" THEN [s EXCEPT !.processed_data = Some(processed.rows)] ELSE s

\* df_raw['enhanced_description'] = df_raw.apply(...): with description
\* elements, the column is written on the table the session holds
DescribedRaw(s) ==
  [s EXCEPT !.df_raw =
     Some([i \in 1..Len(s.df_raw[1]) |->
             execute_data_processing_row(s.description_elements, s.df_raw[1][i])] \o <<>>)]

\* execute_data_processing: the descriptions, then process_data
execute_data_processing(s, e) ==
  StoreProcessed(DescribedRaw(s),
    process_data(DescribedRaw(s).df_raw[1], s.column_mapping, s.config, e))

\* "if session.get('processed_data') is None: execute_data_processing"
EnsureProcessed(s, e) ==
  IF s.processed_data # None THEN s ELSE execute_data_processing(s, e)

\* execute_inventory_management once the table is there or processing has
\* failed: the variant stores are initialised, the editor is rendered.  ok
\* tells whether the step's navigation buttons are rendered after it.
InventoryPage(s, fresh, typed_qty, typed_price) ==
  IF s.processed_data = None
    THEN [ok |-> FALSE, st |-> s]
    ELSE [ok |-> TRUE,
          st |-> render_variant_editor(
                   initialize_variants(s, s.processed_data[1], s.column_mapping, s.config),
                   fresh, typed_qty, typed_price)]

\* the page of step 4: render_sidebar_config, update_config,
\* execute_inventory_management
inventory_run(st0, change, fresh, typed_qty, typed_price, e) ==
  InventoryPage(
    EnsureProcessed([st0 EXCEPT !.config = render_sidebar_config(st0.config, change)], e),
    fresh, typed_qty, typed_price)

\* what execute_csv_generation makes of the generated catalog
GenerationResult(s, csv) ==
  [csv |-> IF csv.status = "ok" /\ csv.rows = <<>>
             THEN [status |-> "empty", rows |-> <<>>, columns |-> csv.columns]
             ELSE [status |-> csv.status, rows |-> csv.rows, columns |-> csv.columns],
   st  |-> [s EXCEPT !.processed_data = Some(csv.table)]]

\* the descriptions of execute_csv_generation on the processed table: the
\* description column is written on every row, and with description
\* elements apply_enhanced_descriptions sets column_mapping['Body (HTML)']
\* on the dict the session holds
EnhancedSession(s) ==
  [s EXCEPT
     !.processed_data =
        Some([n \in 1..Len(s.processed_data[1]) |->
                [s.processed_data[1][n] EXCEPT
                   !.src = execute_csv_generation_row(s.description_elements, @)]] \o <<>>),
     !.column_mapping =
        IF s.description_elements = <<>> THEN s.column_mapping
        ELSE Put(s.column_mapping, "Body_HTML", "enhanced_description")]

\* generate_shopify_csv on the table and the mapping with the descriptions
GenerateEnhanced(s, e) ==
  GenerationResult(s, generate_shopify_csv(s, s.processed_data[1], s.column_mapping, e))

GenerationPage(s, e) ==
  IF s.processed_data = None
    THEN [csv |-> [status |-> "Error", rows |-> <<>>, columns |-> <<>>], st |-> s]
    ELSE GenerateEnhanced(EnhancedSession(s), e)

\* the page of step 5, execute_csv_generation, with the AI service
\* disabled: the catalog, and the session with the table as generation
\* leaves it
generation_run(st0, e) == GenerationPage(EnsureProcessed(st0, e), e)

(***************************************************************************)
(* Inputs of the parser specification                                      *)
(***************************************************************************)
MaxLen == 4

Alphabet == {"M", "x", "5", "-", ".", " "}

RECURSIVE SeqsUpTo(_, _)
SeqsUpTo(S, n) ==
  IF n = 0 THEN {<<>>}
  ELSE LET shorter == SeqsUpTo(S, n - 1)
       IN  shorter \cup {Append(s, c) : s \in shorter, c \in S}

NamedTokens ==
  { <<"C","u","s","t","o","m">>, <<"c","u","s","t","o","m">>,
    <<"C","U","S","T","O","M">>, <<" ","c","U","s","T","o","M"," ">>,
    <<"c","u","s","t","o","m","-","5">>,
    <<"M","-","i","n","f">>, <<"M","-","I","n","f","i","n","i","t","y">>,
    <<"M","-","n","a","n">>, <<"M","-","1","2">>, <<"X","L","-","5",".","7">>,
    <<"A","-","B","-","C">> }

ParseTokens == SeqsUpTo(Alphabet, MaxLen) \cup NamedTokens

NoResult == [status |-> "none"]

(***************************************************************************)
(* Specification of the parser: one token in, one result out               *)
(***************************************************************************)
ParseInit ==
  /\ input \in ParseTokens
  /\ result = NoResult
  /\ aux = NoResult
  /\ pc = "parse"
  /\ NoSession

ParseStep ==
  /\ pc = "parse"
  /\ result' = parse_size_and_quantity(input)
  /\ pc' = "parsed"
  /\ UNCHANGED <<input, aux, st, ui, shopify_csv, env, used>>

SpecParse == ParseInit /\ [][ParseStep]_vars

(***************************************************************************)
(* Specification of the sorter: a string of up to MaxTokens comma-separated *)
(* parts is sorted, and the sorted list is joined and sorted again         *)
(***************************************************************************)
MaxTokens == 3

SortPool ==
  { <<"M">>, <<"m">>, <<"X","S">>, <<"2","X","L">>, <<"5">>, <<"1","2">>,
    <<"X","5">>, <<"x","1","2">>, <<"X","5","Y">>, <<"A">>, <<"b">>,
    <<"M","-","5">>, <<"-","5">>, <<"c","u","s","t","o","m","-","5">>,
    <<"C","u","s","t","o","m">>, <<" ">>, <<"A","-","B","-","C">>,
    <<"M","-","i","n","f">> }

SortInputs == {JoinComma(parts) : parts \in SeqsUpTo(SortPool, MaxTokens)}

SortInit ==
  /\ input \in SortInputs
  /\ result = NoResult
  /\ aux = NoResult
  /\ pc = "sort"
  /\ NoSession

SortStep ==
  /\ pc = "sort"
  /\ result' = sort_sizes_with_quantities(input)
  /\ pc' = "sorted"
  /\ UNCHANGED <<input, aux, st, ui, shopify_csv, env, used>>

SortAgainStep ==
  /\ pc = "sorted"
  /\ result.status = "ok"
  /\ aux' = sort_sizes_with_quantities(JoinComma(result.sizes))
  /\ pc' = "resorted"
  /\ UNCHANGED <<input, result, st, ui, shopify_csv, env, used>>

SortNext == SortStep \/ SortAgainStep

SpecSort == SortInit /\ [][SortNext]_vars

(***************************************************************************)
(* Specification of the explosion of one source row                        *)
(***************************************************************************)
MaxSizeParts == 2

SizePool ==
  { <<"M","-","5">>, <<"M">>, <<"L">>, <<"A","-","B","-","C">>,
    <<"M","-","x">>, <<" ">>, <<"M","-","i","n","f">> }

SizeCells == {NaN} \cup {Text(JoinComma(parts)) : parts \in SeqsUpTo(SizePool, MaxSizeParts)}

\* a color cell: missing, blank, one color, two colors, one color twice
ColorCells ==
  {NaN, Text(<<>>), Text(<<"R">>), Text(<<"R",",","B">>), Text(<<"R",",","R">>)}

CompareCells == {NaN, Text(<<"5","0">>)}

ExplodeConfigs ==
  { EmptyDict,
    [bulk_qty_mode |-> FALSE, default_qty |-> 10, default_compare_price |-> 0,
     bulk_compare_price_mode |-> FALSE],
    [bulk_qty_mode |-> TRUE, bulk_qty |-> 3],
    [bulk_qty_mode |-> TRUE],
    [use_expected_qty |-> TRUE, fallback_qty |-> 7],
    [use_expected_qty |-> TRUE, fallback_qty |-> 7, default_qty |-> 2],
    [use_expected_qty |-> TRUE, default_qty |-> 2],
    [use_expected_qty |-> FALSE, default_qty |-> 2, fallback_qty |-> 7],
    [use_expected_qty |-> FALSE],
    [bulk_compare_price_mode |-> TRUE, bulk_compare_price |-> 3000],
    [use_expected_compare_price |-> FALSE, default_compare_price |-> 0],
    [use_expected_compare_price |-> FALSE, default_compare_price |-> 1500] }

\* the confirmed mapping, by the catalog field names or by the legacy names
ExplodeMappings ==
  { [Title |-> "Name", Option1_Value |-> "Sizes", Option2_Value |-> "Colours",
     Variant_Compare_At_Price |-> "Was"],
    [size |-> "Sizes", colour |-> "Colours"] }

ExplodeInit ==
  /\ input \in [row : [Name : {Text(<<"T">>)}, Sizes : SizeCells, Colours : ColorCells,
                       Was : CompareCells],
                column_mapping : ExplodeMappings,
                config : ExplodeConfigs]
  /\ result = NoResult
  /\ aux = NoResult
  /\ pc = "explode"
  /\ NoSession

ExplodeStep ==
  /\ pc = "explode"
  /\ result' = process_variants(<<input.row>>, input.column_mapping, input.config)
  /\ pc' = "exploded"
  /\ UNCHANGED <<input, aux, st, ui, shopify_csv, env, used>>

SpecExplode == ExplodeInit /\ [][ExplodeStep]_vars

(***************************************************************************)
(* The session specification: one user working through the five steps.     *)
(* Every action is one interaction of the user and the script runs it       *)
(* causes: a changed widget reruns the page of the current step, a         *)
(* navigation button runs the page, sets the step and reruns.  The AI      *)
(* service is not enabled and the description builder is left as it opens. *)
(***************************************************************************)
MaxRows == 2
MaxUploads == 1
MaxEdits == 1

\* the rows a file can hold: a title or none, a size without and a size
\* with a quantity, and a compare price cell that is missing, a number, or
\* a zero read as a number or as text
FileRows ==
  [Name : {Text(<<"T">>), NaN},
   Code : {Text(<<"A">>)},
   Sizes : {Text(<<"L",",","M","-","5">>)},
   Colours : {Text(<<"R">>)},
   Price : {Num(10000)},
   Was : {NaN, Num(5000), Num(0), Text(<<"0">>)},
   Desc : {Text(<<"D">>)}]

\* a row whose price is an infinity
InfRows ==
  [Name : {Text(<<"T">>)},
   Code : {Text(<<"A">>)},
   Sizes : {Text(<<"L",",","M","-","5">>)},
   Colours : {Text(<<"R">>)},
   Price : {Text(<<"i","n","f">>)},
   Was : {NaN},
   Desc : {Text(<<"D">>)}]

Files == UNION {[1..n -> FileRows] : n \in 1..MaxRows} \cup {<<row>> : row \in InfRows}

\* the mappings the select boxes of step 2 are set to
MappingPool ==
  { [Title |-> "Name", Variant_SKU |-> "Code", Option1_Value |-> "Sizes",
     Option2_Value |-> "Colours", Variant_Price |-> "Price",
     Variant_Compare_At_Price |-> "Was", Body_HTML |-> "Desc"],
    [Variant_SKU |-> "Code", Option1_Value |-> "Sizes", Option2_Value |-> "Colours",
     Variant_Price |-> "Price", Variant_Compare_At_Price |-> "Was"] }

\* what the user sets in one group of the sidebar of step 4
SidebarChanges ==
  { [widget |-> "bulk_qty_mode", on |-> TRUE, value |-> 7, size |-> <<>>],
    [widget |-> "bulk_qty_mode", on |-> FALSE, value |-> 0, size |-> <<>>],
    [widget |-> "bulk_compare_price_mode", on |-> TRUE, value |-> 3000, size |-> <<>>],
    [widget |-> "bulk_compare_price_mode", on |-> FALSE, value |-> 0, size |-> <<>>],
    [widget |-> "enable_surcharge", on |-> TRUE, value |-> 10, size |-> <<"L">>],
    [widget |-> "enable_surcharge", on |-> FALSE, value |-> 0, size |-> <<>>] }

Init ==
  /\ st = FreshSession
  /\ ui = BlankPage
  /\ shopify_csv = [status |-> "none"]
  \* astype(str) of a missing cell: "nan", or still missing and then ""
  /\ env \in { [astype_str_nan |-> <<"n","a","n">>], [astype_str_nan |-> <<>>] }
  /\ used = [uploads |-> 0, edits |-> 0]
  /\ input = <<>>
  /\ result = NoResult
  /\ aux = NoResult
  /\ pc = "session"

Session == pc = "session"

\* step 1, a file is chosen: execute_file_upload stores the table
UploadFile ==
  /\ Session /\ st.step = 1
  /\ used.uploads < MaxUploads
  /\ \E df \in Files :
       st' = [st EXCEPT !.df_raw = Some(df)]
  /\ ui' = [uploaded_file |-> TRUE, nav |-> TRUE, error |-> ""]
  /\ used' = [used EXCEPT !.uploads = @ + 1]
  /\ UNCHANGED <<input, result, aux, pc, shopify_csv, env>>

\* the files that give no table: one with a header and no rows, which
\* loads as an empty table, and one that load_file cannot read
BadFiles == {"empty", "unreadable"}

\* the page of step 1 goes on to its button after a failed upload
UploadFailure_button ==
  /\ Session /\ st.step = 1
  /\ \E file \in BadFiles :
       ui' = [uploaded_file |-> TRUE, nav |-> st.df_raw # None, error |-> file]
  /\ UNCHANGED <<input, result, aux, pc, st, shopify_csv, env, used>>

\* step 1, a file is chosen that gives no table: execute_file_upload
\* reports the error and returns False before anything is stored, and
\* _step_upload returns before its button
UploadFailure ==
  /\ Session /\ st.step = 1
  /\ \E file \in BadFiles :
       ui' = [uploaded_file |-> TRUE, nav |-> FALSE, error |-> file]
  /\ UNCHANGED <<input, result, aux, pc, st, shopify_csv, env, used>>

\* the page of step 2: the select boxes start from the base mapping of the
\* mapping analysis (an input here) when the session has no current
\* mapping, and the cleaned mapping is stored
mapping_run(st0, m) ==
  [st0 EXCEPT !.mapping_started = TRUE,
              !.column_mapping = IF st0.mapping_started THEN st0.column_mapping ELSE m]

\* "Continue to Column Mapping"
ContinueToMapping ==
  /\ Session /\ st.step = 1 /\ ui.uploaded_file /\ ui.nav /\ st.df_raw # None
  /\ \E m \in MappingPool : st' = mapping_run([st EXCEPT !.step = 2], m)
  /\ ui' = [uploaded_file |-> FALSE, nav |-> TRUE, error |-> ""]
  /\ UNCHANGED <<input, result, aux, pc, shopify_csv, env, used>>

\* step 2, the select boxes are set to another mapping
EditMapping ==
  /\ Session /\ st.step = 2
  /\ \E m \in MappingPool :
       /\ m # st.column_mapping
       /\ st' = [st EXCEPT !.column_mapping = m]
  /\ UNCHANGED <<input, result, aux, pc, ui, shopify_csv, env, used>>

\* "Back to Upload": the uploader of the new page is empty, so
\* execute_file_upload fails and the page has no button
BackToUpload ==
  /\ Session /\ st.step = 2 /\ ui.nav
  /\ st' = [st EXCEPT !.step = 1]
  /\ ui' = BlankPage
  /\ UNCHANGED <<input, result, aux, pc, shopify_csv, env, used>>

\* the page of step 3: the builder's elements are stored; when there is
\* none and 'Body (HTML)' is mapped to a column of the table, the builder
\* starts with one element for that column
description_run(st0) ==
  IF /\ st0.description_elements = <<>>
     /\ "Body_HTML" \in DOMAIN st0.column_mapping
     /\ st0.column_mapping["Body_HTML"] \in DOMAIN st0.df_raw[1][1]
    THEN [st0 EXCEPT !.description_elements =
            <<[column |-> st0.column_mapping["Body_HTML"],
               label |-> <<"P","r","o","d","u","c","t"," ",
                           "D","e","s","c","r","i","p","t","i","o","n">>,
               html_tag |-> <<"p">>]>>]
    ELSE st0

\* "Continue to Description Builder"
ContinueToDescription ==
  /\ Session /\ st.step = 2 /\ ui.nav
  /\ st' = description_run([st EXCEPT !.step = 3])
  /\ UNCHANGED <<input, result, aux, pc, ui, shopify_csv, env, used>>

\* "Back to Mapping"
BackToMapping ==
  /\ Session /\ st.step = 3 /\ ui.nav
  /\ st' = mapping_run([description_run(st) EXCEPT !.step = 2], st.column_mapping)
  /\ UNCHANGED <<input, result, aux, pc, ui, shopify_csv, env, used>>

\* the session and the page after a run of step 4
ShowInventory(run) ==
  /\ st' = run.st
  /\ ui' = [uploaded_file |-> FALSE, nav |-> run.ok, error |-> ""]

\* "Continue to Configuration & Inventory": the widgets of step 4 are new
ContinueToInventory ==
  /\ Session /\ st.step = 3 /\ ui.nav
  /\ ShowInventory(inventory_run([description_run(st) EXCEPT !.step = 4],
                                 NoChange, TRUE, EmptyDict, EmptyDict, env))
  /\ UNCHANGED <<input, result, aux, pc, shopify_csv, env, used>>

\* step 4, a group of the sidebar is changed
ChangeSidebar ==
  /\ Session /\ st.step = 4
  /\ used.edits < MaxEdits
  /\ \E change \in SidebarChanges :
       /\ render_sidebar_config(st.config, change) # st.config
       /\ ShowInventory(inventory_run(st, change, FALSE, EmptyDict, EmptyDict, env))
  /\ used' = [used EXCEPT !.edits = @ + 1]
  /\ UNCHANGED <<input, result, aux, pc, shopify_csv, env>>

\* the variant keys the editor of the last run showed
ShownKeys == {st.unique_variants[i] : i \in 1..Len(st.unique_variants)}

\* step 4, "Apply New Default to All Variants" with a new default typed in:
\* stored quantities equal to 0 or to the old default become the new one,
\* and the script reruns.  In the rerun a quantity input whose value=
\* argument has changed either is a new widget showing the new value or is
\* the widget of before still holding its own value, as the installed
\* streamlit identifies it; kept is what the inputs give back in the latter
\* case: the quantities of before.
ApplyDefaultQty ==
  /\ Session /\ st.step = 4
  /\ used.edits < MaxEdits
  /\ \E new_default_qty \in {3}, keep \in BOOLEAN :
       /\ new_default_qty # Get(st.config, "default_qty", 10)
       /\ ShowInventory(
            inventory_run(
              [st EXCEPT
                 !.config = Put(st.config, "default_qty", new_default_qty),
                 !.variant_quantities =
                    [k \in DOMAIN st.variant_quantities |->
                       IF st.variant_quantities[k] = 0
                          \/ st.variant_quantities[k] = Get(st.config, "default_qty", 10)
                         THEN new_default_qty ELSE st.variant_quantities[k]] @@ EmptyDict],
              NoChange, FALSE,
              IF keep
                THEN [k \in ShownKeys \cap DOMAIN st.variant_quantities |->
                        st.variant_quantities[k]] @@ EmptyDict
                ELSE EmptyDict,
              EmptyDict, env))
  /\ used' = [used EXCEPT !.edits = @ + 1]
  /\ UNCHANGED <<input, result, aux, pc, shopify_csv, env>>

\* step 4, a quantity is typed into the editor
EditQuantity ==
  /\ Session /\ st.step = 4 /\ ui.nav
  /\ used.edits < MaxEdits
  /\ \E k \in ShownKeys, new_qty \in {4} :
       ShowInventory(inventory_run(st, NoChange, FALSE, k :> new_qty, EmptyDict, env))
  /\ used' = [used EXCEPT !.edits = @ + 1]
  /\ UNCHANGED <<input, result, aux, pc, shopify_csv, env>>

\* step 4, a compare price is typed into the editor
EditComparePrice ==
  /\ Session /\ st.step = 4 /\ ui.nav
  /\ used.edits < MaxEdits
  /\ \E k \in ShownKeys, new_price \in {0, 2500} :
       ShowInventory(inventory_run(st, NoChange, FALSE, EmptyDict, k :> new_price, env))
  /\ used' = [used EXCEPT !.edits = @ + 1]
  /\ UNCHANGED <<input, result, aux, pc, shopify_csv, env>>

\* "Back to Description Builder"
BackToDescription ==
  /\ Session /\ st.step = 4 /\ ui.nav
  /\ st' = description_run(
             [inventory_run(st, NoChange, FALSE, EmptyDict, EmptyDict, env).st
                EXCEPT !.step = 3])
  /\ UNCHANGED <<input, result, aux, pc, ui, shopify_csv, env, used>>

\* the session, the catalog and the page after a run of step 5
ShowCatalog(gen) ==
  /\ st' = gen.st
  /\ shopify_csv' = gen.csv
  /\ ui' = [uploaded_file |-> FALSE, nav |-> gen.csv.status = "ok",
            error |-> IF gen.csv.status = "ok" THEN "" ELSE "generation"]

\* "Generate Shopify CSV": the page of step 4 runs, then the page of step 5
\* generates the catalog; its results, download and "Process Another File"
\* are rendered when generation succeeds
GenerateCsv ==
  /\ Session /\ st.step = 4 /\ ui.nav
  /\ ShowCatalog(generation_run(
                   [inventory_run(st, NoChange, FALSE, EmptyDict, EmptyDict, env).st
                      EXCEPT !.step = 5], env))
  /\ UNCHANGED <<input, result, aux, pc, env, used>>

\* step 5, the page runs again (the download button is clicked)
Regenerate ==
  /\ Session /\ st.step = 5 /\ ui.nav
  /\ ShowCatalog(generation_run(st, env))
  /\ UNCHANGED <<input, result, aux, pc, env, used>>

\* the session is cleared and the page stays at its step
ProcessNewFile_keeps_step ==
  /\ Session
  /\ \/ st.step = 4
     \/ st.step = 5 /\ ui.nav
  /\ st' = [FreshSession EXCEPT !.step = st.step]
  /\ ui' = BlankPage
  /\ shopify_csv' = [status |-> "none"]
  /\ UNCHANGED <<input, result, aux, pc, env, used>>

\* "Process New File" of the sidebar (step 4) and "Process Another File" of
\* the download section (step 5): the session state is cleared and the next
\* run initialises it
ProcessNewFile ==
  /\ Session
  /\ \/ st.step = 4
     \/ st.step = 5 /\ ui.nav
  /\ st' = FreshSession
  /\ ui' = BlankPage
  /\ shopify_csv' = [status |-> "none"]
  /\ UNCHANGED <<input, result, aux, pc, env, used>>

Next ==
  \/ UploadFile
  \/ UploadFailure
  \/ ContinueToMapping
  \/ EditMapping
  \/ BackToUpload
  \/ ContinueToDescription
  \/ BackToMapping
  \/ ContinueToInventory
  \/ ChangeSidebar
  \/ ApplyDefaultQty
  \/ EditQuantity
  \/ EditComparePrice
  \/ BackToDescription
  \/ GenerateCsv
  \/ Regenerate
  \/ ProcessNewFile

Spec == Init /\ [][Next]_vars

(***************************************************************************)
(* Specification of catalog generation: a table of up to MaxCatalogRows    *)
(* source rows under a confirmed mapping goes through the pages of step 4  *)
(* (with one change of the sidebar, or none) and step 5                    *)
(***************************************************************************)
MaxCatalogRows == 2

\* the source rows: a title and a code with punctuation and spaces, sizes in
\* and out of taxonomy order, a size with a quantity, no size and no color,
\* a price of zero, a missing title, hyphens around the title and the code,
\* a blank title without a code, and neither title nor code; one row has a
\* description and the state Active
CatalogRows ==
  { [Name |-> Text(<<"C","o","o","l"," ","S","h","i","r","t","!">>),
     Code |-> Text(<<"A","B"," ","1","2">>), Sizes |-> Text(<<"L",",","M">>),
     Colours |-> Text(<<"R">>), Price |-> Num(10000),
     Desc |-> Text(<<"D">>), State |-> Text(<<"A","c","t","i","v","e">>)],
    [Name |-> Text(<<"T">>), Code |-> Text(<<"A">>), Sizes |-> Text(<<"M",",","L">>),
     Colours |-> Text(<<"R",",","B">>), Price |-> Num(10000),
     Desc |-> NaN, State |-> Text(<<"d","r","a","f","t">>)],
    [Name |-> Text(<<"T">>), Code |-> Text(<<"A">>),
     Sizes |-> Text(<<"c","u","s","t","o","m","-","5",",","d">>),
     Colours |-> Text(<<"R">>), Price |-> Num(5000), Desc |-> NaN, State |-> NaN],
    [Name |-> Text(<<"T">>), Code |-> Text(<<"A">>), Sizes |-> NaN,
     Colours |-> NaN, Price |-> Num(10000), Desc |-> NaN, State |-> NaN],
    [Name |-> Text(<<"T">>), Code |-> Text(<<"A">>), Sizes |-> Text(<<"d">>),
     Colours |-> Text(<<"R">>), Price |-> Num(0), Desc |-> NaN, State |-> NaN],
    [Name |-> NaN, Code |-> Text(<<"A">>), Sizes |-> Text(<<"L">>),
     Colours |-> Text(<<"R">>), Price |-> Num(10000), Desc |-> NaN, State |-> NaN],
    [Name |-> Text(<<"T"," ","-">>), Code |-> Text(<<"-"," ","A">>),
     Sizes |-> Text(<<"L">>), Colours |-> Text(<<"B">>), Price |-> Num(10000),
     Desc |-> NaN, State |-> NaN],
    [Name |-> Text(<<" ">>), Code |-> NaN, Sizes |-> Text(<<"M">>),
     Colours |-> Text(<<"R">>), Price |-> Num(10000), Desc |-> NaN, State |-> NaN],
    [Name |-> NaN, Code |-> NaN, Sizes |-> Text(<<"M">>),
     Colours |-> Text(<<"R">>), Price |-> Num(10000), Desc |-> NaN, State |-> NaN] }

CatalogInit ==
  /\ input \in [df : UNION {[1..n -> CatalogRows] : n \in 1..MaxCatalogRows},
                column_mapping :
                  MappingPool \cup {m @@ [Body_HTML |-> "Desc", published |-> "State"] :
                                      m \in MappingPool},
                change : {NoChange} \cup {c \in SidebarChanges : c.on}
                           \cup {[widget |-> "enable_surcharge", on |-> TRUE,
                                   value |-> 50, size |-> <<"L">>]},
                e : { [astype_str_nan |-> <<"n","a","n">>], [astype_str_nan |-> <<>>] }]
  /\ result = NoResult
  /\ aux = NoResult
  /\ pc = "catalog"
  /\ NoSession

\* the page of step 4 runs on the mapped table, then the page of step 5
CatalogStep ==
  /\ pc = "catalog"
  /\ result' = generation_run(
                  [inventory_run([FreshSession EXCEPT !.df_raw = Some(input.df),
                                                      !.column_mapping = input.column_mapping,
                                                      !.step = 4],
                                 input.change, TRUE, EmptyDict, EmptyDict, input.e).st
                     EXCEPT !.step = 5],
                  input.e)
  /\ pc' = "built"
  /\ UNCHANGED <<input, aux, st, ui, shopify_csv, env, used>>

SpecCatalog == CatalogInit /\ [][CatalogStep]_vars

(***************************************************************************)
(* helpers/column_mapper.py: ColumnMapper.analyze_columns                  *)
(* A DataFrame is a sequence of columns [name, values]; a confidence or a  *)
(* ratio is a pair <<numerator, denominator>> with a positive denominator. *)
(* A pass yields its assignments in the order the code makes them; the     *)
(* dict the code builds from them keeps the last column of each field.     *)
(***************************************************************************)
\* x < y on two ratios
FracLess(x, y) == x[1] * y[2] < y[1] * x[2]

\* k copies of v
Copies(v, k) == [i \in 1..k |-> v] \o <<>>

\* the fields of _get_column_variants that the column names of ColumnPool
\* can reach by an exact or a fuzzy match, in the order of the table
standard_variants ==
  <<
     [field |-> "Title",
      variants |-> <<<<"t","i","t","l","e">>,
                    <<"p","r","o","d","u","c","t","_","t","i","t","l","e">>,
                    <<"p","r","o","d","u","c","t"," ","t","i","t","l","e">>,
                    <<"n","a","m","e">>,
                    <<"p","r","o","d","u","c","t","_","n","a","m","e">>,
                    <<"p","r","o","d","u","c","t"," ","n","a","m","e">>>>],
     [field |-> "Variant Price",
      variants |-> <<<<"v","a","r","i","a","n","t"," ","p","r","i","c","e">>,
                    <<"v","a","r","i","a","n","t","_","p","r","i","c","e">>,
                    <<"p","r","i","c","e">>,
                    <<"u","n","i","t","_","p","r","i","c","e">>,
                    <<"u","n","i","t"," ","p","r","i","c","e">>,
                    <<"c","o","s","t">>,
                    <<"s","e","l","l","i","n","g","_","p","r","i","c","e">>>>],
     [field |-> "SEO Title",
      variants |-> <<<<"s","e","o"," ","t","i","t","l","e">>,
                    <<"s","e","o","_","t","i","t","l","e">>,
                    <<"m","e","t","a"," ","t","i","t","l","e">>,
                    <<"m","e","t","a","_","t","i","t","l","e">>>>]
  >>

\* df[col].dropna().astype(str).head(10)
SampleSize == 10

\* {col.lower().strip(): col for col in df.columns}[key]: the last column
KeyedColumn(columns, key) ==
  columns[SetMax({c \in 1..Len(columns) : Strip(LowerStr(columns[c])) = key})]

\* the variants of field f that are the key of some column
KeyedVariants(columns, f) ==
  {j \in 1..Len(standard_variants[f].variants) :
     \E c \in 1..Len(columns) :
        Strip(LowerStr(columns[c])) = LowerStr(standard_variants[f].variants[j])}

\* _exact_match: per field, the first variant that is the key of a column
exact_match(columns) ==
  [name \in {standard_variants[f].field :
               f \in {g \in 1..Len(standard_variants) : KeyedVariants(columns, g) # {}}} |->
     KeyedColumn(columns,
       LowerStr(standard_variants[CHOOSE f \in 1..Len(standard_variants) :
                                     standard_variants[f].field = name].variants[
                  SetMin(KeyedVariants(columns,
                           CHOOSE f \in 1..Len(standard_variants) :
                              standard_variants[f].field = name))]))]
    @@ EmptyDict

\* a[i..i+k-1] = b[j..j+k-1]
IsBlock(a, b, i, j, k) ==
  /\ i + k - 1 <= Len(a)
  /\ j + k - 1 <= Len(b)
  /\ SubSeq(a, i, i + k - 1) = SubSeq(b, j, j + k - 1)

\* the block of size k that starts first in a, and of those first in b
FirstBlock(a, b, k, i) ==
  <<i, SetMin({j \in 1..Len(b) : IsBlock(a, b, i, j, k)}), k>>

\* the blocks of size k
BlockOfSize(a, b, k) ==
  FirstBlock(a, b, k,
    SetMin({i \in 1..Len(a) : \E j \in 1..Len(b) : IsBlock(a, b, i, j, k)}))

\* SequenceMatcher.find_longest_match: <<i, j, k>> with a[i..i+k-1] =
\* b[j..j+k-1], k largest, then i least, then j least
LongestMatch(a, b) ==
  BlockOfSize(a, b,
    SetMax({k \in 1..Len(a) :
              \E i \in 1..Len(a) : \E j \in 1..Len(b) : IsBlock(a, b, i, j, k)}))

RECURSIVE MatchSize(_, _)
\* the matched characters to the left and to the right of the block m
MatchAround(a, b, m) ==
  m[3] + MatchSize(SubSeq(a, 1, m[1] - 1), SubSeq(b, 1, m[2] - 1))
       + MatchSize(SubSeq(a, m[1] + m[3], Len(a)), SubSeq(b, m[2] + m[3], Len(b)))

\* sum of the sizes of SequenceMatcher.get_matching_blocks()
MatchSize(a, b) ==
  IF \E i \in 1..Len(a) : \E j \in 1..Len(b) : a[i] = b[j]
    THEN MatchAround(a, b, LongestMatch(a, b))
    ELSE 0

\* re.sub(r'[_\-\s]+', '', str)
CleanName(str) == Restrict(str, {i \in 1..Len(str) : str[i] \notin {"_", "-", " "}})

\* SequenceMatcher.ratio(): 2.0 * matches / length, 1.0 for two empty texts
Ratio(a, b) ==
  IF Len(a) + Len(b) = 0 THEN <<1, 1>> ELSE <<2 * MatchSize(a, b), Len(a) + Len(b)>>

\* max(similarity, 0.8) when one cleaned text contains the other
Boosted(a, b, similarity) ==
  IF (Contains(a, b) \/ Contains(b, a)) /\ FracLess(similarity, <<8, 10>>)
    THEN <<8, 10>> ELSE similarity

\* _calculate_similarity
calculate_similarity(str1, str2) ==
  Boosted(CleanName(str1), CleanName(str2), Ratio(CleanName(str1), CleanName(str2)))

\* the <<field, variant>> pairs _find_best_fuzzy_match looks at, in order
FuzzyCandidates(existing_mapping) ==
  UNION {{<<f, j>> : j \in 1..Len(standard_variants[f].variants)} :
           f \in {g \in 1..Len(standard_variants) :
                    standard_variants[g].field \notin DOMAIN existing_mapping}}

\* the similarity of a column to each candidate
CandidateScores(column, cands) ==
  [p \in cands |->
     calculate_similarity(LowerStr(column),
                          LowerStr(standard_variants[p[1]].variants[p[2]]))] @@ EmptyDict

\* the candidate that sets best_score last: the first one of the highest
\* similarity
BestCandidate(scores) ==
  CHOOSE p \in DOMAIN scores :
    \A q \in DOMAIN scores :
       \/ FracLess(scores[q], scores[p])
       \/ /\ ~FracLess(scores[p], scores[q])
          /\ (p[1] < q[1] \/ (p[1] = q[1] /\ p[2] <= q[2]))

\* the answer for the best candidate p: only a similarity above 0.7 counts
BestAnswer(column, scores, p) ==
  IF FracLess(<<7, 10>>, scores[p])
    THEN Some([field |-> standard_variants[p[1]].field,
               column |-> column, confidence |-> scores[p]])
    ELSE None

\* the best of the scored candidates
BestOf(column, scores) ==
  IF DOMAIN scores = {} THEN None
  ELSE BestAnswer(column, scores, BestCandidate(scores))

\* _find_best_fuzzy_match
find_best_fuzzy_match(column, existing_mapping) ==
  BestOf(column, CandidateScores(column, FuzzyCandidates(existing_mapping)))

RECURSIVE fuzzy_match(_, _)
\* _fuzzy_match: the assignments in the order of the columns
fuzzy_match(unmapped_columns, existing_mapping) ==
  IF unmapped_columns = <<>> THEN <<>>
  ELSE find_best_fuzzy_match(Head(unmapped_columns), existing_mapping)
         \o fuzzy_match(Tail(unmapped_columns), existing_mapping)

\* str(v).lower().strip() of the samples that are not blank
values_lower(sample_values) ==
  [i \in 1..Len(Restrict(sample_values,
                  {j \in 1..Len(sample_values) : Strip(sample_values[j]) # <<>>})) |->
     Strip(LowerStr(Restrict(sample_values,
                  {j \in 1..Len(sample_values) : Strip(sample_values[j]) # <<>>})[i]))] \o <<>>

\* count / len(values) if values else 0
Share(values, hits) ==
  IF values = <<>> THEN <<0, 1>> ELSE <<Cardinality(hits), Len(values)>>

\* float() succeeds on the value without "," and whitespace, 0 < num < 100000
is_price_value(v) ==
  /\ PyFloat(Restrict(v, {i \in 1..Len(v) : v[i] \notin {",", " "}})).kind = "finite"
  /\ ~PyFloat(Restrict(v, {i \in 1..Len(v) : v[i] \notin {",", " "}})).neg
  /\ \/ PyFloat(Restrict(v, {i \in 1..Len(v) : v[i] \notin {",", " "}})).ip > 0
     \/ PyFloat(Restrict(v, {i \in 1..Len(v) : v[i] \notin {",", " "}})).fnz
  /\ PyFloat(Restrict(v, {i \in 1..Len(v) : v[i] \notin {",", " "}})).ip < 100000

\* a word character of a regular expression
IsWordChar(c) == c \notin {" ", "-", ".", ",", "!"}

\* v[i..j] is a whole word: \b on both sides
IsWord(v, i, j) ==
  /\ i <= j
  /\ \A k \in i..j : IsWordChar(v[k])
  /\ (i = 1 \/ ~IsWordChar(v[i - 1]))
  /\ (j = Len(v) \/ ~IsWordChar(v[j + 1]))

\* one of the four size patterns is found in the value; the fourth, a number
\* of one or two digits, "-" and a number, holds only where the second does
is_size_value(v) ==
  \E i \in 1..Len(v) : \E j \in i..Len(v) :
     /\ IsWord(v, i, j)
     /\ \/ SubSeq(v, i, j) \in {<<"x","s">>,
                        <<"s">>,
                        <<"m">>,
                        <<"l">>,
                        <<"x","l">>,
                        <<"x","x","l">>,
                        <<"x","x","x","l">>,
                        <<"s","m","a","l","l">>,
                        <<"m","e","d","i","u","m">>,
                        <<"l","a","r","g","e">>}
        \/ j - i < 2 /\ \A k \in i..j : IsDigit(v[k])

\* ^[A-Za-z0-9_-]+$ on the value and more than two characters
is_code_value(v) ==
  /\ Len(Strip(v)) > 2
  /\ \A i \in 1..Len(Strip(v)) : Strip(v)[i] \notin {" ", ".", ",", "!"}

\* _is_price_column
is_price_column(values) ==
  Share(values, {i \in 1..Len(values) : is_price_value(values[i])})

\* _is_status_column
is_status_column(values) ==
  Share(values, {i \in 1..Len(values) : values[i] \in {<<"a","c","t","i","v","e">>,
                            <<"i","n","a","c","t","i","v","e">>,
                            <<"d","r","a","f","t">>,
                            <<"p","u","b","l","i","s","h","e","d">>,
                            <<"u","n","p","u","b","l","i","s","h","e","d">>,
                            <<"t","r","u","e">>,
                            <<"f","a","l","s","e">>,
                            <<"y","e","s">>,
                            <<"n","o">>}})

\* _is_size_column
is_size_column(values) ==
  Share(values, {i \in 1..Len(values) : is_size_value(values[i])})

\* _is_color_column
is_color_column(values) ==
  Share(values, {i \in 1..Len(values) :
                   \E color \in {<<"r","e","d">>,
                                  <<"b","l","u","e">>,
                                  <<"g","r","e","e","n">>,
                                  <<"y","e","l","l","o","w">>,
                                  <<"b","l","a","c","k">>,
                                  <<"w","h","i","t","e">>,
                                  <<"p","i","n","k">>,
                                  <<"p","u","r","p","l","e">>,
                                  <<"o","r","a","n","g","e">>,
                                  <<"b","r","o","w","n">>,
                                  <<"g","r","a","y">>,
                                  <<"g","r","e","y">>,
                                  <<"n","a","v","y">>,
                                  <<"m","a","r","o","o","n">>,
                                  <<"t","e","a","l">>,
                                  <<"c","y","a","n">>} : Contains(values[i], color)})

\* _is_category_column
is_category_column(values) ==
  Share(values, {i \in 1..Len(values) :
                   \E cat \in {<<"s","h","i","r","t">>,
                                <<"d","r","e","s","s">>,
                                <<"p","a","n","t","s">>,
                                <<"j","e","a","n","s">>,
                                <<"j","a","c","k","e","t">>,
                                <<"s","h","o","e","s">>,
                                <<"b","a","g">>,
                                <<"j","e","w","e","l","r","y">>,
                                <<"c","l","o","t","h","i","n","g">>,
                                <<"a","p","p","a","r","e","l">>,
                                <<"a","c","c","e","s","s","o","r","i","e","s">>,
                                <<"f","o","o","t","w","e","a","r">>} : Contains(values[i], cat)})

\* _is_code_column in tenths: min(1.0, base_score + name_bonus)
is_code_column(values, column_name) ==
  IF \E hint \in {<<"s","k","u">>,
                  <<"c","o","d","e">>,
                  <<"i","d">>,
                  <<"n","u","m","b","e","r">>,
                  <<"r","e","f">>} : Contains(column_name, hint)
    THEN IF FracLess(<<7, 10>>, Share(values, {i \in 1..Len(values) : is_code_value(values[i])}))
           THEN <<1, 1>>
           ELSE <<10 * Share(values, {i \in 1..Len(values) : is_code_value(values[i])})[1]
                    + 3 * Share(values, {i \in 1..Len(values) : is_code_value(values[i])})[2],
                  10 * Share(values, {i \in 1..Len(values) : is_code_value(values[i])})[2]>>
    ELSE Share(values, {i \in 1..Len(values) : is_code_value(values[i])})

\* the decision of _detect_column_type on the lowered values
TypeOfValues(values, column_name) ==
  IF FracLess(<<7, 10>>, is_price_column(values))
    THEN [type |-> "variant price", confidence |-> <<8, 10>>]
  ELSE IF FracLess(<<6, 10>>, is_status_column(values))
    THEN [type |-> "published", confidence |-> <<7, 10>>]
  ELSE IF FracLess(<<6, 10>>, is_size_column(values))
    THEN [type |-> "size", confidence |-> <<7, 10>>]
  ELSE IF FracLess(<<6, 10>>, is_color_column(values))
    THEN [type |-> "colour", confidence |-> <<7, 10>>]
  ELSE IF FracLess(<<5, 10>>, is_category_column(values))
    THEN [type |-> "product category", confidence |-> <<6, 10>>]
  ELSE IF FracLess(<<7, 10>>, is_code_column(values, column_name))
    THEN [type |-> "product code", confidence |-> <<8, 10>>]
  ELSE [type |-> "", confidence |-> <<0, 1>>]

\* _detect_column_type
detect_column_type(sample_values, column_name) ==
  TypeOfValues(values_lower(sample_values), LowerStr(column_name))

\* df[col].dropna().astype(str).head(10).tolist()
SampleValues(cells) ==
  [i \in 1..SetMin({SampleSize, Cardinality({j \in 1..Len(cells) : cells[j].k # "nan"})}) |->
     Restrict(cells, {j \in 1..Len(cells) : cells[j].k # "nan"})[i].s] \o <<>>

\* the assignment of one column in _content_analysis, if it makes one
ContentAnswer(name, detected, existing_mapping) ==
  IF /\ detected.type # ""
     /\ FracLess(<<6, 10>>, detected.confidence)
     /\ detected.type \notin DOMAIN existing_mapping
    THEN <<[field |-> detected.type, column |-> name, confidence |-> detected.confidence]>>
    ELSE <<>>

RECURSIVE content_analysis(_, _, _)
\* _content_analysis: the assignments in the order of the columns
content_analysis(df, unmapped_columns, existing_mapping) ==
  IF unmapped_columns = <<>> THEN <<>>
  ELSE (IF SampleValues(df[Head(unmapped_columns)].values) = <<>> THEN <<>>
        ELSE ContentAnswer(df[Head(unmapped_columns)].name,
               detect_column_type(SampleValues(df[Head(unmapped_columns)].values),
                                  df[Head(unmapped_columns)].name),
               existing_mapping))
         \o content_analysis(df, Tail(unmapped_columns), existing_mapping)

\* the dict a pass builds from its assignments: mapping[field] = column
MappingOf(assignments) ==
  [f \in {assignments[i].field : i \in 1..Len(assignments)} |->
     assignments[SetMax({i \in 1..Len(assignments) : assignments[i].field = f})].column]
    @@ EmptyDict

\* the dict a pass builds from its assignments: confidence_scores[column]
ScoresOf(assignments) ==
  [c \in {assignments[i].column : i \in 1..Len(assignments)} |->
     assignments[SetMax({i \in 1..Len(assignments) : assignments[i].column = c})].confidence]
    @@ EmptyDict

\* the values of a dict
ValuesOf(dict) == {dict[k] : k \in DOMAIN dict}

\* MappingResult(final_mapping, final_unmapped, confidence_scores), with the
\* exact mapping and the assignments of the two later passes kept beside it
MappingResult(df, base_mapping, fuzzy, content) ==
  [exact |-> base_mapping, fuzzy |-> fuzzy, content |-> content,
   base_mapping |-> MappingOf(content) @@ MappingOf(fuzzy) @@ base_mapping,
   unmapped_columns |->
     Restrict([i \in 1..Len(df) |-> df[i].name],
              {i \in 1..Len(df) :
                 df[i].name \notin ValuesOf(MappingOf(content) @@ MappingOf(fuzzy) @@ base_mapping)}),
   confidence_scores |->
     ScoresOf(content) @@ ScoresOf(fuzzy) @@ [c \in ValuesOf(base_mapping) |-> <<1, 1>>]]

\* the content pass on the columns the fuzzy dict does not hold
WithContent(df, base_mapping, unmapped, fuzzy) ==
  MappingResult(df, base_mapping, fuzzy,
    content_analysis(df,
      Restrict(unmapped, {i \in 1..Len(unmapped) :
                            df[unmapped[i]].name \notin ValuesOf(MappingOf(fuzzy))}),
      base_mapping))

\* the fuzzy pass on the columns the exact pass left
WithFuzzy(df, base_mapping, unmapped) ==
  WithContent(df, base_mapping, unmapped,
    fuzzy_match([i \in 1..Len(unmapped) |-> df[unmapped[i]].name] \o <<>>, base_mapping))

\* the positions of the columns the exact pass left
Unmapped(df, base_mapping) ==
  Restrict([i \in 1..Len(df) |-> i], {i \in 1..Len(df) : df[i].name \notin ValuesOf(base_mapping)})

\* analyze_columns
analyze_columns(df) ==
  WithFuzzy(df, exact_match([i \in 1..Len(df) |-> df[i].name] \o <<>>),
            Unmapped(df, exact_match([i \in 1..Len(df) |-> df[i].name] \o <<>>)))

(***************************************************************************)
(* Specification of the column mapper: a table of up to MaxColumns columns *)
(* with distinct names is analysed once.                                   *)
(***************************************************************************)
MaxColumns == 2

\* columns: names that match exactly, by similarity, or not at all, with
\* samples on and around the thresholds of the content analysis
ColumnPool ==
  { [name |-> <<"T","i","t","l","e">>, values |-> Copies(Text(<<"z","z">>), 2)],
    [name |-> <<"t","i","t","l","e">>, values |-> Copies(Text(<<"r","e","d">>), 2)],
    [name |-> <<"t","i","-","t","l","e">>, values |-> Copies(Text(<<"z","z">>), 2)],
    [name |-> <<"t","i","t","e","l">>, values |-> Copies(Text(<<"z","z">>), 2)],
    [name |-> <<"T","i","t","e">>, values |-> Copies(Text(<<"1","5","0">>), 2)],
    [name |-> <<"P","r","i","c","e","s">>, values |-> Copies(Text(<<"1","5","0">>), 2)],
    [name |-> <<"a","m","o","u","n","t">>, values |-> Copies(Text(<<"1","5","0">>), 7) \o Copies(Text(<<"z","z">>), 3)],
    [name |-> <<"r","a","t","e">>, values |-> Copies(Text(<<"1","5","0">>), 2) \o <<NaN>>],
    [name |-> <<"f","e","e">>, values |-> Copies(Text(<<"1","0">>), 2)],
    [name |-> <<"w","2">>, values |-> Copies(Text(<<"A","c","t","i","v","e">>), 3) \o Copies(Text(<<"z","z">>), 2)],
    [name |-> <<"t","i","n","t">>, values |-> Copies(Text(<<"r","e","d">>), 2)],
    [name |-> <<"g","r","p">>, values |-> Copies(Text(<<"s","h","i","r","t">>), 2)],
    [name |-> <<"k","i","n","d">>, values |-> <<Text(<<"s","h","i","r","t">>), Text(<<"z","z">>)>>],
    [name |-> <<"r","e","f">>, values |-> Copies(Text(<<"a","b","1">>), 2)],
    [name |-> <<"d","i","m">>, values |-> Copies(Text(<<"M">>), 11)],
    [name |-> <<"v","o","i","d">>, values |-> Copies(NaN, 2)] }

MapperInit ==
  /\ input \in UNION {{df \in [1..n -> ColumnPool] :
                         \A i, j \in 1..n : df[i].name = df[j].name => i = j} :
                      n \in 1..MaxColumns}
  /\ result = NoResult
  /\ aux = NoResult
  /\ pc = "analyze"
  /\ NoSession

MapperStep ==
  /\ pc = "analyze"
  /\ result' = analyze_columns(input)
  /\ pc' = "mapped"
  /\ UNCHANGED <<input, aux, st, ui, shopify_csv, env, used>>

SpecMapper == MapperInit /\ [][MapperStep]_vars

(***************************************************************************)
(* Specification of the descriptions: the elements of the builder and one  *)
(* row of the table go through data processing and catalog generation.     *)
(***************************************************************************)
MaxElements == 1

\* an element's column: one of the table, or not chosen yet
ElementPool ==
  [column : {"fabric", "qty", ""},
   label : {<<"F","a","b","r","i","c">>, <<" ">>},
   html_tag : {html_tags[i] : i \in 1..Len(html_tags)}]

\* rows: a text, a missing and a blank cell; a whole number, a decimal and
\* an infinity
DescribedRows ==
  [fabric : {Text(<<"C","o","t","t","o","n">>), NaN, Text(<<" ">>)},
   qty : {Text(<<"5",".","0">>), Text(<<"2",".","5">>), Text(<<"i","n","f">>)}]

DescribeInit ==
  /\ input \in [elements : UNION {[1..n -> ElementPool] : n \in 1..MaxElements},
                row : DescribedRows]
  /\ result = NoResult
  /\ aux = NoResult
  /\ pc = "describe"
  /\ NoSession

DescribeStep ==
  /\ pc = "describe"
  /\ result' =
       [html_parts |-> HtmlParts(input.elements, input.row),
        dynamic_parts |-> DynamicParts(input.elements, input.row),
        body |-> CleanupText(body_html(
                   execute_csv_generation_row(input.elements,
                     execute_data_processing_row(input.elements, input.row)),
                   EmptyDict))]
  /\ pc' = "described"
  /\ UNCHANGED <<input, aux, st, ui, shopify_csv, env, used>>

SpecDescribe == DescribeInit /\ [][DescribeStep]_vars

(***************************************************************************)
(* backend/ai_service.py: the enrichment loop                              *)
(***************************************************************************)
\* str.strip() of a reply, which may hold line breaks
StripWs(s) ==
  LET keep == {i \in 1..Len(s) : s[i] \notin {" ", "\n"}}
  IN  IF keep = {} THEN <<>> ELSE SubSeq(s, SetMin(keep), SetMax(keep))

\* str.split(sep, 1): one or two pieces
SplitOnce(s, sep) ==
  LET at == {i \in 1..Len(s) : s[i] = sep}
  IN  IF at = {} THEN <<s>>
      ELSE <<SubSeq(s, 1, SetMin(at) - 1), SubSeq(s, SetMin(at) + 1, Len(s))>>

SimpleMode == "Simple mode (first sentence + tags)"

FullMode == "Full AI mode (custom description + tags)"

DefaultMode == "Default template (no AI)"

\* what model.generate_content does: it raises, or it answers with a text
\* (an answer without text counts as the empty text)
Raised == [raised |-> TRUE, text |-> <<>>]

Answer(text) == [raised |-> FALSE, text |-> text]

\* _generate_tags(text) under one outcome of the call; called is whether the
\* call was made at all
generate_tags(text, reply) ==
  IF text = <<>> THEN [tags |-> <<>>, called |-> FALSE]
  ELSE IF reply.raised THEN [tags |-> <<>>, called |-> TRUE]
  ELSE [tags |-> StripWs(reply.text), called |-> TRUE]

first_sentence(text) == StripWs(SplitOnce(text, ".")[1])

process_simple_mode(text, reply) ==
  IF text = <<>> THEN [desc |-> <<>>, tags |-> <<>>, called |-> FALSE]
  ELSE [desc |-> first_sentence(text),
        tags |-> generate_tags(first_sentence(text), reply).tags,
        called |-> generate_tags(first_sentence(text), reply).called]

AnswerLines(reply) == SplitOnce(StripWs(reply.text), "\n")

process_full_ai_mode(text, reply) ==
  IF text = <<>> THEN [desc |-> <<>>, tags |-> <<>>, called |-> FALSE]
  ELSE IF reply.raised THEN [desc |-> text, tags |-> <<>>, called |-> TRUE]
  ELSE IF Len(AnswerLines(reply)) >= 2
    THEN [desc |-> StripWs(AnswerLines(reply)[1]),
          tags |-> StripWs(AnswerLines(reply)[2]), called |-> TRUE]
  ELSE [desc |-> StripWs(reply.text), tags |-> <<>>, called |-> TRUE]

\* the text the loop reads for one row
original_desc(row, column_mapping) ==
  clean_value(get_column_value(row, column_mapping, "description", Text(<<>>)))

\* one pass of the loop body: the row's pair and what became of its call
EnrichRow(row, column_mapping, mode, reply) ==
  IF mode = SimpleMode
    THEN process_simple_mode(original_desc(row, column_mapping), reply)
  ELSE IF mode = FullMode
    THEN process_full_ai_mode(original_desc(row, column_mapping), reply)
  ELSE [desc |-> original_desc(row, column_mapping), tags |-> <<>>,
        called |-> FALSE]

(***************************************************************************)
(* Specification of the enrichment: a table in, the loop row by row       *)
(***************************************************************************)
MaxAiRows == 2

AiCells ==
  {NaN, Text(<<"A", ".", " ", "B">>), Text(<<" ", "A">>), Text(<<".", "A">>)}

AiMappings ==
  {[description |-> "Desc"], [Body_HTML |-> "Desc"]}

ReplyPool ==
  {Raised, Answer(<<>>), Answer(<<"t", ",", "u">>),
   Answer(<<"D", "\n", " ", "t">>), Answer(<<" ", "D", "\n">>)}

EnrichInit ==
  /\ input \in [df : UNION {[1..n -> [Desc : AiCells]] : n \in 1..MaxAiRows},
                column_mapping : AiMappings,
                mode : {SimpleMode, FullMode, DefaultMode},
                enabled : BOOLEAN]
  /\ result = NoResult
  /\ aux = [custom_descs |-> <<>>, all_tags |-> <<>>, calls |-> <<>>]
  /\ pc = "enrich"
  /\ NoSession

\* is_enabled() is false: the table is given back as it came
EnrichDisabled ==
  /\ pc = "enrich"
  /\ ~input.enabled
  /\ result' = [status |-> "returned", df |-> input.df]
  /\ pc' = "enriched"
  /\ UNCHANGED <<input, aux, st, ui, shopify_csv, env, used>>

\* one iteration of the loop, under one outcome of the external call
EnrichLoop ==
  /\ pc = "enrich"
  /\ input.enabled
  /\ Len(aux.custom_descs) < Len(input.df)
  /\ \E reply \in ReplyPool :
       aux' =
         [custom_descs |->
            Append(aux.custom_descs,
                   EnrichRow(input.df[Len(aux.custom_descs) + 1],
                             input.column_mapping, input.mode, reply).desc),
          all_tags |->
            Append(aux.all_tags,
                   EnrichRow(input.df[Len(aux.custom_descs) + 1],
                             input.column_mapping, input.mode, reply).tags),
          calls |->
            Append(aux.calls,
                   IF ~EnrichRow(input.df[Len(aux.custom_descs) + 1],
                                 input.column_mapping, input.mode, reply).called
                     THEN "none"
                   ELSE IF reply.raised THEN "failed" ELSE "answered")]
  /\ UNCHANGED <<input, result, pc, st, ui, shopify_csv, env, used>>

\* the loop is over: the two lists become columns of the table
EnrichDone ==
  /\ pc = "enrich"
  /\ input.enabled
  /\ Len(aux.custom_descs) = Len(input.df)
  /\ result' =
       [status |-> "returned",
        df |-> [i \in 1..Len(input.df) |->
                  [Desc |-> input.df[i].Desc,
                   custom_description |-> aux.custom_descs[i],
                   ai_tags |-> aux.all_tags[i]]] \o <<>>]
  /\ pc' = "enriched"
  /\ UNCHANGED <<input, aux, st, ui, shopify_csv, env, used>>

EnrichNext == EnrichDisabled \/ EnrichLoop \/ EnrichDone

SpecEnrich == EnrichInit /\ [][EnrichNext]_vars

(***************************************************************************)
(* Specification of the stored mapping analysis: steps 1 and 2 of a        *)
(* session, with tables of one column.  The session is held in aux:        *)
(* step, df_raw, mapping_result and current_column_mapping are the keys    *)
(* of st.session_state, uploaded is whether the uploader of the page       *)
(* holds a file that loaded.                                               *)
(***************************************************************************)
AnalysisTables == {<<column>> : column \in ColumnPool}

FreshAnalysis ==
  [step |-> 1, df_raw |-> None, mapping_result |-> None,
   current_column_mapping |-> None, uploaded |-> FALSE]

AnalysisInit ==
  /\ input = <<>>
  /\ result = NoResult
  /\ aux = FreshAnalysis
  /\ pc = "analysis"
  /\ NoSession

\* execute_column_mapping_enhanced and render_enhanced_column_mapping: the
\* analysis is made when the session has none, and the select boxes start
\* from its mapping when the session has no current mapping
mapping_page(s) ==
  [s EXCEPT
     !.mapping_result =
        IF s.mapping_result = None THEN Some(analyze_columns(s.df_raw[1])) ELSE @,
     !.current_column_mapping =
        IF s.current_column_mapping # None THEN @
        ELSE IF s.mapping_result = None
          THEN Some(analyze_columns(s.df_raw[1]).base_mapping)
        ELSE Some(s.mapping_result[1].base_mapping)]

\* step 1, a file is chosen and loads: the table is stored
AnalysisUpload ==
  /\ pc = "analysis" /\ aux.step = 1
  /\ \E df \in AnalysisTables :
       aux' = [aux EXCEPT !.df_raw = Some(df), !.uploaded = TRUE]
  /\ UNCHANGED <<input, result, pc, st, ui, shopify_csv, env, used>>

\* "Continue to Column Mapping", and the page of step 2
AnalysisContinue ==
  /\ pc = "analysis" /\ aux.step = 1 /\ aux.uploaded /\ aux.df_raw # None
  /\ aux' = mapping_page([aux EXCEPT !.step = 2, !.uploaded = FALSE])
  /\ UNCHANGED <<input, result, pc, st, ui, shopify_csv, env, used>>

\* step 2, "Reset All Mappings"
AnalysisReset ==
  /\ pc = "analysis" /\ aux.step = 2
  /\ aux' = mapping_page([aux EXCEPT !.current_column_mapping = Some(EmptyDict)])
  /\ UNCHANGED <<input, result, pc, st, ui, shopify_csv, env, used>>

\* step 2, "Back to Upload"
AnalysisBack ==
  /\ pc = "analysis" /\ aux.step = 2
  /\ aux' = [aux EXCEPT !.step = 1]
  /\ UNCHANGED <<input, result, pc, st, ui, shopify_csv, env, used>>

AnalysisNext == AnalysisUpload \/ AnalysisContinue \/ AnalysisReset \/ AnalysisBack

SpecAnalysis == AnalysisInit /\ [][AnalysisNext]_vars

(***************************************************************************)
(* Specification of repeated generation: generate_shopify_csv is run up    *)
(* to MaxRuns times on the exploded table of one session, which each run   *)
(* leaves with the columns it has set; between the runs the surcharge      *)
(* option of the config is switched or left alone.  aux holds the session  *)
(* and the number of runs, result the catalog of the last run.             *)
(***************************************************************************)
MaxRuns == 3

RepeatChanges ==
  { NoChange,
    [widget |-> "enable_surcharge", on |-> TRUE, value |-> 10, size |-> <<"L">>],
    [widget |-> "enable_surcharge", on |-> FALSE, value |-> 0, size |-> <<>>] }

\* the session after the page of step 4 has run on the table
RepeatInit ==
  /\ input \in [df : [1..1 -> CatalogRows],
                column_mapping : MappingPool,
                e : { [astype_str_nan |-> <<"n","a","n">>], [astype_str_nan |-> <<>>] }]
  /\ aux = [st |-> inventory_run([FreshSession EXCEPT !.df_raw = Some(input.df),
                                                      !.column_mapping = input.column_mapping,
                                                      !.step = 4],
                                 NoChange, TRUE, EmptyDict, EmptyDict, input.e).st,
            runs |-> 0]
  /\ result = NoResult
  /\ pc = "repeat"
  /\ NoSession

\* one run of generate_shopify_csv on the table the session holds, under
\* the config as the change leaves it
RepeatGenerate ==
  /\ pc = "repeat"
  /\ aux.runs < MaxRuns
  /\ aux.st.processed_data # None
  /\ \E change \in RepeatChanges :
       /\ result' =
            generate_shopify_csv(
              [aux.st EXCEPT !.config = render_sidebar_config(aux.st.config, change)],
              aux.st.processed_data[1], aux.st.column_mapping, input.e)
       /\ aux' = [st |-> [aux.st EXCEPT
                            !.config = render_sidebar_config(aux.st.config, change),
                            !.processed_data = Some(result'.table)],
                  runs |-> aux.runs + 1]
  /\ UNCHANGED <<input, pc, st, ui, shopify_csv, env, used>>

SpecRepeat == RepeatInit /\ [][RepeatGenerate]_vars

(***************************************************************************)
(* What the specification calls a token's parts                            *)
(***************************************************************************)
\* a decimal numeral: digits with at most one ".", at least one digit
IsNumeral(s) ==
  /\ \E i \in 1..Len(s) : IsDigit(s[i])
  /\ \A i \in 1..Len(s) : IsDigit(s[i]) \/ s[i] = "."
  /\ \A i, j \in 1..Len(s) : (s[i] = "." /\ s[j] = ".") => i = j

\* the integer a numeral truncates to: the value of the digits before "."
NumeralInt(s) ==
  LET d == {i \in 1..Len(s) : s[i] = "."}
  IN  DigitsValue(IF d = {} THEN s ELSE SubSeq(s, 1, SetMin(d) - 1))

HyphenAt(s) == SetMin({i \in 1..Len(s) : s[i] = "-"})

LeftPart(s) == Strip(SubSeq(s, 1, HyphenAt(s) - 1))

RightPart(s) == Strip(SubSeq(s, HyphenAt(s) + 1, Len(s)))

OneHyphenNumeric(s) == CountHyphen(s) = 1 /\ IsNumeral(RightPart(s))

IsCustomToken(s) == LowerStr(Strip(s)) = CustomWord

\* C7: once a token is parsed, a token with exactly one hyphen and a numeric
\* right-hand side has given (left part, int(right part)), and the token
\* Custom in any letter case has given ("Custom", 0).
C7_ParseDecomposes ==
  pc = "parsed" =>
    /\ OneHyphenNumeric(Strip(input)) =>
          result = [status |-> "ok", size |-> LeftPart(Strip(input)),
                    qty |-> NumeralInt(RightPart(Strip(input)))]
    /\ IsCustomToken(input) =>
          result = [status |-> "ok", size |-> CustomSize, qty |-> 0]

\* a token with a fractional quantity has been parsed and truncated
C7_Witness ==
  /\ pc = "parsed"
  /\ input = <<"X","L","-","5",".","7">>
  /\ result.size = <<"X","L">>
  /\ result.qty = 5

\* C8: parse returns (full_token, 0) for every token with zero hyphens or
\* with two or more hyphens and for every one-hyphen token whose right-hand
\* side is not a number, and it fails on no token (the reserved token Custom
\* apart, which C7 covers).
C8_ParseOpaqueNeverFails ==
  pc = "parsed" =>
    /\ result.status = "ok"
    /\ (~IsCustomToken(input) /\ ~OneHyphenNumeric(Strip(input))) =>
          result = [status |-> "ok", size |-> Strip(input), qty |-> 0]

(***************************************************************************)
(* What the specification calls the buckets of sort_sizes                  *)
(***************************************************************************)
\* the canonical size label of a token: "Custom", the left part of a token
\* with an embedded quantity, or the token itself
LabelOf(token) ==
  IF IsCustomToken(token) THEN CustomSize
  ELSE IF OneHyphenNumeric(Strip(token)) THEN LeftPart(Strip(token))
  ELSE Strip(token)

InTaxonomy(z) == \E i \in 1..Len(standard_order) : UpperStr(z) = standard_order[i]

TaxonomyIndex(z) == CHOOSE i \in 1..Len(standard_order) : UpperStr(z) = standard_order[i]

\* X or x followed by at least one digit
StartsXDigits(z) == Len(z) >= 2 /\ z[1] \in {"X", "x"} /\ IsDigit(z[2])

\* the integer of a purely numeric size, or the digits that follow the X
EmbeddedInteger(z) ==
  IF IsAllDigits(z) THEN DigitsValue(z)
  ELSE LET ends == {k \in 2..Len(z) : \A m \in 2..k : IsDigit(z[m])}
       IN  DigitsValue(SubSeq(z, 2, SetMax(ends)))

BucketOf(z) ==
  IF InTaxonomy(z) THEN 1
  ELSE IF IsAllDigits(z) \/ StartsXDigits(z) THEN 2
  ELSE 3

NoDuplicates(seq) == \A i, j \in 1..Len(seq) : seq[i] = seq[j] => i = j

\* C9: sorting the sorted list again returns the same list, and the sorted
\* list holds the size of every distinct input token exactly once and nothing
\* else.
C9_SortIdempotentComplete ==
  /\ pc = "resorted" => (aux.status = "ok" /\ aux.sizes = result.sizes)
  /\ (pc \in {"sorted", "resorted"} /\ result.status = "ok") =>
        /\ NoDuplicates(result.sizes)
        /\ {result.sizes[i] : i \in 1..Len(result.sizes)}
             = {LabelOf(SplitClean(input)[i]) : i \in 1..Len(SplitClean(input))}

\* C10: the sorted list is the taxonomy sizes in taxonomy order, then the
\* numeric and X<digits> sizes in ascending order of their integer, then the
\* other sizes in lexicographic order; no size of a later bucket precedes a
\* size of an earlier one.
C10_SortBucketOrder ==
  (pc \in {"sorted", "resorted"} /\ result.status = "ok") =>
    \A i, j \in 1..Len(result.sizes) :
      i < j =>
        LET a == result.sizes[i]
            b == result.sizes[j]
        IN  /\ BucketOf(a) <= BucketOf(b)
            /\ (BucketOf(a) = 1 /\ BucketOf(b) = 1) => TaxonomyIndex(a) <= TaxonomyIndex(b)
            /\ (BucketOf(a) = 2 /\ BucketOf(b) = 2) => EmbeddedInteger(a) <= EmbeddedInteger(b)
            /\ (BucketOf(a) = 3 /\ BucketOf(b) = 3) => StrLess(a, b)

\* a cell given in the reverse order, one size of each bucket, has been sorted
C10_Witness ==
  /\ pc = "sorted"
  /\ input = <<"b", ",", "x", "1", "2", ",", "X", "S">>
  /\ result.sizes = << <<"X","S">>, <<"x","1","2">>, <<"b">> >>

(***************************************************************************)
(* What the specification says of the explosion of one source row          *)
(***************************************************************************)
\* the text of a cell as the explosion reads it: a missing cell is empty
CellText(cell) == IF cell.k = "nan" THEN <<>> ELSE cell.s

\* the non-blank comma-separated entries of the row's size and color cells
SizeTokens == SplitClean(CellText(input.row.Sizes))

ColorTokens == SplitClean(CellText(input.row.Colours))

\* the quantity embedded in a token, 0 when it has none
EmbeddedQty(token) ==
  IF OneHyphenNumeric(Strip(token)) THEN NumeralInt(RightPart(Strip(token))) ELSE 0

\* the sizes of the row: the distinct labels of its tokens
SizeLabels == {LabelOf(SizeTokens[i]) : i \in 1..Len(SizeTokens)}

\* the embedded quantities the row's tokens give for a size
QtysOf(size) ==
  IF SizeLabels = {} THEN {0}
  ELSE {EmbeddedQty(SizeTokens[i]) : i \in {j \in 1..Len(SizeTokens) : LabelOf(SizeTokens[j]) = size}}

IsSet(key) == key \in DOMAIN input.config

IsOn(key) == IsSet(key) /\ input.config[key]

IsOff(key) == IsSet(key) /\ ~input.config[key]

\* the quantity the policy prescribes for an embedded quantity q, where the
\* configuration sets the options the policy reads
FollowsQtyPolicy(qty, q) ==
  /\ (IsOn("bulk_qty_mode") /\ IsSet("bulk_qty")) => qty = input.config.bulk_qty
  /\ (~IsOn("bulk_qty_mode") /\ IsOn("use_expected_qty") /\ q > 0) => qty = q
  /\ (~IsOn("bulk_qty_mode") /\ IsOn("use_expected_qty") /\ q <= 0 /\ IsSet("fallback_qty")) =>
        qty = input.config.fallback_qty
  /\ (~IsOn("bulk_qty_mode") /\ IsOn("use_expected_qty") /\ q <= 0 /\ ~IsSet("fallback_qty")
        /\ IsSet("default_qty")) => qty = input.config.default_qty
  /\ (~IsOn("bulk_qty_mode") /\ IsOff("use_expected_qty") /\ IsSet("default_qty")) =>
        qty = input.config.default_qty

Exploded == pc = "exploded" /\ result.status = "ok"

\* C4: the extracted quantity of every exploded row follows the policy:
\* bulk_qty in bulk mode; else, with use_expected_qty, the embedded quantity
\* of the row's size when positive and otherwise fallback_qty (default_qty
\* when fallback_qty is unset); else default_qty.
C4_QuantityPolicy ==
  Exploded =>
    \A n \in 1..Len(result.rows) :
      \E q \in QtysOf(result.rows[n].sizes_list) :
        FollowsQtyPolicy(result.rows[n].extracted_quantity, q)

\* size M-5 has given 5
C4_Witness ==
  /\ Exploded
  /\ input.row.Sizes = Text(<<"M","-","5">>)
  /\ input.config = [use_expected_qty |-> TRUE, fallback_qty |-> 7]
  /\ \E n \in 1..Len(result.rows) :
       result.rows[n].sizes_list = <<"M">> /\ result.rows[n].extracted_quantity = 5

\* size M with fallback_qty = 7 has given 7
C4_WitnessFallback ==
  /\ Exploded
  /\ input.row.Sizes = Text(<<"M">>)
  /\ input.config = [use_expected_qty |-> TRUE, fallback_qty |-> 7]
  /\ \E n \in 1..Len(result.rows) :
       result.rows[n].sizes_list = <<"M">> /\ result.rows[n].extracted_quantity = 7

NumSizes == Cardinality(SizeLabels)

NumColors == Len(ColorTokens)

AtLeastOne(n) == IF n = 0 THEN 1 ELSE n

\* C5 as stated: the explosion of a row has (number of sizes) x (number of
\* colors) rows, and 1 row when both lists are empty.
C5_Original ==
  Exploded =>
    Len(result.rows) = IF NumSizes = 0 /\ NumColors = 0 THEN 1 ELSE NumSizes * NumColors

\* C5 amended: an empty size list or an empty color list counts as one
\* placeholder entry: the explosion has max(1, sizes) x max(1, colors) rows,
\* and for every size and every color as many rows as the color has entries.
C5_ExplosionCardinality ==
  Exploded =>
    LET sizes  == IF SizeLabels = {} THEN {<<>>} ELSE SizeLabels
        colors == IF ColorTokens = <<>> THEN << <<>> >> ELSE ColorTokens
    IN  /\ Len(result.rows) = AtLeastOne(NumSizes) * AtLeastOne(NumColors)
        /\ \A z \in sizes : \A j \in 1..Len(colors) :
             Cardinality({n \in 1..Len(result.rows) :
                            /\ result.rows[n].sizes_list = z
                            /\ result.rows[n].colours_list = colors[j]})
               = Cardinality({i \in 1..Len(colors) : colors[i] = colors[j]})

\* two sizes and two colors have given four rows
C5_Witness ==
  /\ Exploded
  /\ NumSizes = 2
  /\ input.row.Colours = Text(<<"R", ",", "B">>)
  /\ Len(result.rows) = 4

\* C6: the display_size of an exploded row is its token cut before the
\* embedded -quantity, and the whole token when the token has no embedded
\* quantity: a token with several hyphens or with a right-hand side that is
\* no number is not decomposed.
C6_DisplaySize ==
  Exploded =>
    \A n \in 1..Len(result.rows) :
      IF SizeLabels = {}
        THEN result.rows[n].display_size = <<>>
        ELSE \E i \in 1..Len(SizeTokens) :
               /\ LabelOf(SizeTokens[i]) = result.rows[n].sizes_list
               /\ result.rows[n].display_size = LabelOf(SizeTokens[i])

(***************************************************************************)
(* The generated catalog against the source table and the variant stores    *)
(***************************************************************************)
\* step 5 has generated a catalog
Generated == pc = "session" /\ st.step = 5 /\ shopify_csv.status = "ok"

\* the exploded row a catalog row was built from
ExplodedOf(o) == st.processed_data[1][o.origin]

\* the mapped compare-price cell of the source row behind a catalog row
ComparePriceCell(o) ==
  get_column_value(ExplodedOf(o).src, st.column_mapping, "Variant_Compare_At_Price", NaN)

\* the cell holds a zero, as a number or as a text that parses to one
IsZeroCell(cell) ==
  \/ cell.k = "num" /\ cell.v = 0
  \/ /\ cell.k = "str"
     /\ PyFloat(cell.s).kind = "finite"
     /\ PyFloat(cell.s).ip = 0
     /\ ~PyFloat(cell.s).fnz

\* no bulk mode decides the quantities or the compare prices
NoBulkMode ==
  /\ ~Get(st.config, "bulk_qty_mode", FALSE)
  /\ ~Get(st.config, "bulk_compare_price_mode", FALSE)

\* C1: with no bulk compare-price mode (and here with nothing edited in
\* step 4), every catalog row built from a source row whose mapped
\* compare-price cell is blank has an empty Variant Compare At Price,
\* whatever the other source rows hold.
C1_BlankComparePriceStaysBlank ==
  (Generated /\ NoBulkMode /\ used.edits = 0) =>
    \A i \in 1..Len(shopify_csv.rows) :
      ComparePriceCell(shopify_csv.rows[i]).k = "nan" =>
        shopify_csv.rows[i].Variant_Compare_At_Price = None

\* C2: a compare price of exactly zero is kept distinct from an absent one
\* from extraction to the catalog: with no bulk mode and nothing edited, a
\* catalog row built from a source row whose compare-price cell holds zero
\* carries the number zero, not the empty cell.
C2_ZeroComparePriceKept ==
  (Generated /\ NoBulkMode /\ used.edits = 0) =>
    \A i \in 1..Len(shopify_csv.rows) :
      IsZeroCell(ComparePriceCell(shopify_csv.rows[i])) =>
        shopify_csv.rows[i].Variant_Compare_At_Price = Some(0)

\* C3: with no bulk mode, a catalog row's quantity and compare price are the
\* store's entries for the row's variant key when the store holds the key,
\* and the values extracted for the exploded row when it does not.
C3_StoreThenExtracted ==
  (Generated /\ NoBulkMode) =>
    \A i \in 1..Len(shopify_csv.rows) :
      /\ shopify_csv.rows[i].Variant_Inventory_Qty =
           Get(st.variant_quantities,
               ExplodedOf(shopify_csv.rows[i])._variant_key,
               ExplodedOf(shopify_csv.rows[i]).extracted_quantity)
      /\ shopify_csv.rows[i].Variant_Compare_At_Price =
           Get(st.variant_compare_prices,
               ExplodedOf(shopify_csv.rows[i])._variant_key,
               ExplodedOf(shopify_csv.rows[i]).uploaded_compare_price)

(***************************************************************************)
(* The generated catalog against the exploded table                        *)
(***************************************************************************)
\* a catalog has been generated from the table
Built == pc = "built" /\ result.csv.status = "ok"

\* the exploded row a catalog row was built from
VariantOf(o) == result.st.processed_data[1][o.origin]

\* the order of the specification's size ordering: taxonomy sizes by
\* taxonomy position, then numeric sizes by their integer, then the other
\* sizes lexicographically
SizeNotAfter(a, b) ==
  \/ BucketOf(a) < BucketOf(b)
  \/ BucketOf(a) = 1 /\ BucketOf(b) = 1 /\ TaxonomyIndex(a) <= TaxonomyIndex(b)
  \/ BucketOf(a) = 2 /\ BucketOf(b) = 2 /\ EmbeddedInteger(a) <= EmbeddedInteger(b)
  \/ BucketOf(a) = 3 /\ BucketOf(b) = 3 /\ ~StrLess(b, a)

\* C11: of two catalog rows of one Handle, the earlier one has the size that
\* the size ordering puts first, and when their sizes are equal its color is
\* not lexicographically after the later one's; for every size the explosion
\* produces.
C11_GroupOrder ==
  Built =>
    \A i, j \in 1..Len(result.csv.rows) :
      (i < j /\ result.csv.rows[i].Handle = result.csv.rows[j].Handle) =>
        IF VariantOf(result.csv.rows[i]).sizes_list = VariantOf(result.csv.rows[j]).sizes_list
          THEN ~StrLess(VariantOf(result.csv.rows[j]).colours_list,
                        VariantOf(result.csv.rows[i]).colours_list)
          ELSE SizeNotAfter(VariantOf(result.csv.rows[i]).sizes_list,
                            VariantOf(result.csv.rows[j]).sizes_list)

\* the product-level fields of a catalog row are blank
ProductFieldsBlank(o) ==
  /\ o.Title = <<>> /\ o.Body_HTML = <<>> /\ o.Vendor = "" /\ o.Tags = <<>>
  /\ o.Published = "" /\ o.Option1_Name = "" /\ o.Option2_Name = "" /\ o.Status = ""

\* the row carries the product-level fields of the variant it was built from
CarriesProductFields(o) ==
  /\ o.Title = clean_value(TitleOf(VariantOf(o).src, input.column_mapping))
  /\ o.Body_HTML = body_html(VariantOf(o).src, input.column_mapping)
  /\ o.Vendor = result.st.config.vendor_name
  /\ o.Published \in {"TRUE", "FALSE"}
  /\ o.Option1_Name = (IF o.Option1_Value # <<>> THEN "Size" ELSE "")
  /\ o.Option2_Name = (IF o.Option2_Value # <<>> THEN "Color" ELSE "")
  /\ o.Status = "draft"

C13_OneRowPerVariant ==
  Built =>
    /\ Len(result.csv.rows) = Len(result.st.processed_data[1])
    /\ \A n \in 1..Len(result.st.processed_data[1]) :
         Cardinality({i \in 1..Len(result.csv.rows) : result.csv.rows[i].origin = n}) = 1

\* two source rows of one Handle have given five exploded rows, which the
\* catalog holds in another order
C13_Witness ==
  /\ Built
  /\ Len(input.df) = 2
  /\ Len(result.st.processed_data[1]) = 5
  /\ Len(result.csv.rows) = 5
  /\ \A i, j \in 1..5 : result.csv.rows[i].Handle = result.csv.rows[j].Handle
  /\ \E i \in 1..5 : result.csv.rows[i].origin # i

\* the set of the entries of a sequence
Entries(seq) == {seq[i] : i \in 1..Len(seq)}

\* C14: the catalog's columns are the schema's column list in its order;
\* every emitted row, primary or subordinate, was built with a value under
\* every column of the schema and under no other key, so the key set of a
\* primary row, the key set of a subordinate row and the column list are
\* equal, and no two columns of the schema have one name.
C14_RowsCoverSchema ==
  Built =>
    /\ result.csv.columns = column_order
    /\ Cardinality(Entries(column_order)) = Len(column_order)
    /\ \A i \in 1..Len(result.csv.rows) :
         /\ Entries(result.csv.rows[i].keys) = Entries(result.csv.columns)
         /\ Len(result.csv.rows[i].keys) = Len(result.csv.columns)
         /\ \A j \in 1..Len(result.csv.rows) :
              /\ result.csv.rows[i].keys = result.csv.rows[j].keys
              /\ DOMAIN result.csv.rows[i] = DOMAIN result.csv.rows[j]

\* a catalog with a primary and a subordinate row
C14_Witness ==
  /\ Built
  /\ \E i, j \in 1..Len(result.csv.rows) :
       /\ result.csv.rows[i].Status = "draft" /\ result.csv.rows[j].Status = ""
       /\ result.csv.rows[i].Handle = result.csv.rows[j].Handle
       /\ Len(result.csv.rows[j].keys) = Len(column_order)

\* the mapped base price of the source row behind a catalog row, in hundredths
BasePrice(o) ==
  clean_numeric(get_column_value(VariantOf(o).src, input.column_mapping,
                                 "Variant_Price", Num(0))).v

\* the rule of the row's uppercased display size, in percent; 0 without one
RuleOf(o) ==
  Get(result.st.config.surcharge_rules, UpperStr(Strip(VariantOf(o).display_size)), 0)

\* C15: with enable_surcharge on and no bulk surcharge mode, the price of a
\* catalog row is base x (1 + rule) when the base price is positive and the
\* uppercased display size has a rule, and the base price otherwise: base
\* 100 with the rule L = 0.1 gives 110 for size L and 100 for size M.
C15_SurchargeByRule ==
  (Built /\ result.st.config.enable_surcharge
         /\ ~Get(result.st.config, "bulk_surcharge_mode", FALSE)) =>
    \A i \in 1..Len(result.csv.rows) :
      /\ result.csv.rows[i].Variant_Price_ulps = 0
      /\ result.csv.rows[i].Variant_Price * 100 =
           IF BasePrice(result.csv.rows[i]) > 0
             THEN BasePrice(result.csv.rows[i]) * (100 + RuleOf(result.csv.rows[i]))
             ELSE BasePrice(result.csv.rows[i]) * 100

(***************************************************************************)
(* What the specification calls slugify                                    *)
(***************************************************************************)
\* a word character, whitespace or a hyphen
IsSlugChar(c) ==
  \/ IsDigit(c) \/ c \in {" ", "-", "_"}
  \/ \E i \in 1..26 : c = UpperLetters[i] \/ c = LowerLetters[i]

\* the text without the entries that repeat c directly after c
OneOfEachRun(str, c) ==
  Restrict(str, {i \in 1..Len(str) : ~(str[i] = c /\ i > 1 /\ str[i - 1] = c)})

\* the text without c at its ends
Trimmed(str, c) ==
  IF \A i \in 1..Len(str) : str[i] = c THEN <<>>
  ELSE SubSeq(str, SetMin({i \in 1..Len(str) : str[i] # c}),
                   SetMax({i \in 1..Len(str) : str[i] # c}))

\* whitespace turned into hyphens
Hyphenated(str) == [i \in 1..Len(str) |-> IF str[i] = " " THEN "-" ELSE str[i]] \o <<>>

\* lowercased, other characters removed, whitespace runs turned into one
\* hyphen, hyphen runs collapsed, hyphens trimmed
Slugify(str) ==
  Trimmed(
    OneOfEachRun(
      Hyphenated(
        OneOfEachRun(
          Restrict(LowerStr(str), {i \in 1..Len(str) : IsSlugChar(str[i])}), " ")),
      "-"),
    "-")

\* C16: the Handle of every exploded row whose source row has a title and a
\* code is slugify(title + "-" + code), and no Handle starts or ends with a
\* hyphen or holds two adjacent hyphens; "Cool Shirt!" with code "AB 12"
\* gives "cool-shirt-ab-12".
C16_HandleIsSlug ==
  (pc = "built" /\ result.st.processed_data # None) =>
    \A n \in 1..Len(result.st.processed_data[1]) :
      LET r == result.st.processed_data[1][n]
      IN  /\ r.Handle # <<>> => (r.Handle[1] # "-" /\ r.Handle[Len(r.Handle)] # "-")
          /\ \A i \in 1..(Len(r.Handle) - 1) : ~(r.Handle[i] = "-" /\ r.Handle[i + 1] = "-")
          /\ ("Title" \in DOMAIN input.column_mapping /\ r.src.Name.k = "str"
                /\ r.src.Code.k = "str") =>
                r.Handle = Slugify(r.src.Name.s \o <<"-">> \o r.src.Code.s)
          /\ ("Title" \in DOMAIN input.column_mapping
                /\ r.src.Name = Text(<<"C","o","o","l"," ","S","h","i","r","t","!">>)
                /\ r.src.Code = Text(<<"A","B"," ","1","2">>)) =>
                r.Handle = <<"c","o","o","l","-","s","h","i","r","t","-","a","b","-","1","2">>

\* the rows "Cool Shirt!" / "AB 12" and "T -" / "- A" have their Handles
C16_Witness ==
  /\ pc = "built" /\ result.st.processed_data # None
  /\ "Title" \in DOMAIN input.column_mapping
  /\ \E n, m \in 1..Len(result.st.processed_data[1]) :
       /\ result.st.processed_data[1][n].src.Name
            = Text(<<"C","o","o","l"," ","S","h","i","r","t","!">>)
       /\ result.st.processed_data[1][n].Handle
            = <<"c","o","o","l","-","s","h","i","r","t","-","a","b","-","1","2">>
       /\ result.st.processed_data[1][m].src.Name = Text(<<"T"," ","-">>)
       /\ result.st.processed_data[1][m].Handle = <<"t","-","a">>

(***************************************************************************)
(* The column mapper's passes                                              *)
(***************************************************************************)
\* two ratios are the same number
FracEq(x, y) == x[1] * y[2] = y[1] * x[2]

\* the analysis of the table has returned
Mapped == pc = "mapped"

\* C17: in every result of analyze_columns a column mapped by the exact pass
\* has confidence exactly 1.0, a column mapped by the fuzzy pass has a
\* confidence strictly between 0.7 and 1.0, and a column mapped by the
\* content pass has confidence 0.6, 0.7 or 0.8.
C17_PassConfidence ==
  Mapped =>
    /\ \A c \in ValuesOf(result.exact) : FracEq(result.confidence_scores[c], <<1, 1>>)
    /\ \A i \in 1..Len(result.fuzzy) :
          /\ FracLess(<<7, 10>>, result.fuzzy[i].confidence)
          /\ FracLess(result.fuzzy[i].confidence, <<1, 1>>)
    /\ \A i \in 1..Len(result.content) :
          \E tenths \in {6, 7, 8} : FracEq(result.content[i].confidence, <<tenths, 10>>)

\* the fields a pass assigned
FieldsOf(assignments) == {assignments[i].field : i \in 1..Len(assignments)}

\* no field is assigned twice in the pass
AssignsOnce(assignments) ==
  \A i, j \in 1..Len(assignments) : assignments[i].field = assignments[j].field => i = j

\* C18: a later pass only fills fields that every earlier pass left
\* unmapped: the fuzzy pass assigns no field of the exact pass, the content
\* pass assigns no field of the exact or the fuzzy pass, and within one pass
\* a field that has received a column is not assigned another column.
C18_LaterPassesOnlyFill ==
  Mapped =>
    /\ FieldsOf(result.fuzzy) \cap DOMAIN result.exact = {}
    /\ FieldsOf(result.content) \cap (DOMAIN result.exact \cup FieldsOf(result.fuzzy)) = {}
    /\ AssignsOnce(result.fuzzy)
    /\ AssignsOnce(result.content)

\* x >= y on two ratios
FracAtLeast(x, y) == ~FracLess(x, y)

\* the category the specification gives to the lowered values: the first one
\* whose threshold is met, the thresholds of the shares being inclusive
StatedType(values, column_name) ==
  IF FracAtLeast(is_price_column(values), <<70, 100>>)
    THEN [type |-> "variant price", confidence |-> <<8, 10>>]
  ELSE IF FracAtLeast(is_status_column(values), <<60, 100>>)
    THEN [type |-> "published", confidence |-> <<7, 10>>]
  ELSE IF FracAtLeast(is_size_column(values), <<60, 100>>)
    THEN [type |-> "size", confidence |-> <<7, 10>>]
  ELSE IF FracAtLeast(is_color_column(values), <<60, 100>>)
    THEN [type |-> "colour", confidence |-> <<7, 10>>]
  ELSE IF FracAtLeast(is_category_column(values), <<50, 100>>)
    THEN [type |-> "product category", confidence |-> <<6, 10>>]
  ELSE IF FracLess(<<7, 10>>, is_code_column(values, column_name))
    THEN [type |-> "product code", confidence |-> <<8, 10>>]
  ELSE [type |-> "", confidence |-> <<0, 1>>]

\* the columns that reach the content pass with samples to look at
Sniffed ==
  {c \in 1..Len(input) :
     /\ input[c].name \notin ValuesOf(result.exact)
     /\ \A i \in 1..Len(result.fuzzy) : result.fuzzy[i].column # input[c].name
     /\ SampleValues(input[c].values) # <<>>}

\* what the specification makes of column c
StatedOf(c) ==
  StatedType(values_lower(SampleValues(input[c].values)), LowerStr(input[c].name))

\* C19: the content pass classifies a still unmapped column by the first
\* category, in the order price, status, size, color, category, code,
\* whose threshold is met (price at 70% of the samples or more, status,
\* size and color at 60% or more, category at 50% or more, code at a score
\* above 0.7), and maps the column to that category's field, with the
\* category's confidence, when no earlier pass holds the field.
C19_ContentClassification ==
  Mapped =>
    \A c \in Sniffed :
       (/\ StatedOf(c).type # ""
        /\ StatedOf(c).type \notin DOMAIN result.exact \cup FieldsOf(result.fuzzy))
       => \E i \in 1..Len(result.content) :
             /\ result.content[i].column = input[c].name
             /\ result.content[i].field = StatedOf(c).type
             /\ FracEq(result.content[i].confidence, StatedOf(c).confidence)

(***************************************************************************)
(* The description fragment                                                *)
(***************************************************************************)
\* element i has a label, a cell that is not blank, and a tag other than
\* none, br and li
Labelled(i) ==
  /\ HasColumn(input.elements[i], input.row)
  /\ HasLabel(input.elements[i].label)
  /\ html_clean_value(input.row[input.elements[i].column]) # <<>>
  /\ input.elements[i].html_tag \notin {<<"n","o","n","e">>, <<"b","r">>, <<"l","i">>}

\* the fragment the specification states for a label, a tag and a value
StatedFragment(label, html_tag, value) ==
  IF html_tag = <<"p">>
    THEN <<"<","p",">">> \o label \o <<":", " ">> \o value \o <<"<","/","p",">">>
    ELSE <<"<","p",">","<">> \o html_tag \o <<">">> \o label \o <<" ", ":", " ", "<", "/">>
           \o html_tag \o <<">", " ">> \o value \o <<"<","/","p",">">>

\* the stated fragment of element i
StatedOfElement(i) ==
  StatedFragment(input.elements[i].label, input.elements[i].html_tag,
                 html_clean_value(input.row[input.elements[i].column]))

\* C20: for an element with a label and a cell value that is not blank, the
\* fragment that ends up in the product's Body (HTML) is <p>label: value</p>
\* for the tag p and <p><TAG>label : </TAG> value</p> for a tag other than
\* none, br, li and p, and both renderers of descriptions produce that
\* fragment.
C20_BodyFragment ==
  pc = "described" =>
    \A i \in 1..Len(input.elements) :
       Labelled(i) =>
         /\ result.dynamic_parts[i] = <<StatedOfElement(i)>>
         /\ result.html_parts[i] = <<StatedOfElement(i)>>
         /\ Len(input.elements) = 1 => result.body = StatedOfElement(i)

(***************************************************************************)
(* The session's tables                                                    *)
(***************************************************************************)
\* C21: processing and catalog generation never change the raw table or
\* the stored field mapping: a step that leaves the session at step 4 or 5
\* (data processing, the inventory page, generation) leaves the raw table
\* and the mapping as they were.
C21_ProcessingKeepsInputs ==
  [][(Session /\ st'.step \in {4, 5})
       => (st'.df_raw = st.df_raw /\ st'.column_mapping = st.column_mapping)]_vars

(***************************************************************************)
(* What the specification says of the enrichment loop                      *)
(***************************************************************************)
Enriched == pc = "enriched" /\ input.enabled

\* C22: the enrichment loop over N rows ends with exactly N (text, tags)
\* results in row order whatever calls failed, and every row whose call
\* failed has its original text and an empty tag string
C22_FailedCallKeepsText ==
  Enriched =>
    /\ Len(result.df) = Len(input.df)
    /\ \A i \in 1..Len(input.df) :
         aux.calls[i] = "failed" =>
           /\ result.df[i].custom_description =
                original_desc(input.df[i], input.column_mapping)
           /\ result.df[i].ai_tags = <<>>

(***************************************************************************)
(* What the specification says of a failed upload                          *)
(***************************************************************************)
UploadFailed == Session /\ ui.error \in BadFiles

\* C23: when the uploaded table is empty or cannot be read, the upload step
\* reports an error and stores nothing, the workflow stays at step 1 with
\* no way on, and no processed or output table comes of it
C23_FailedUploadStoresNothing ==
  [][/\ UploadFailed' =>
          /\ st' = st
          /\ shopify_csv' = shopify_csv
          /\ st'.step = 1
          /\ ~ui'.nav
     /\ UploadFailed => st'.step = 1]_vars

C23_Witness ==
  /\ UploadFailed
  /\ st.df_raw = None /\ st.processed_data = None
  /\ shopify_csv.status = "none"

(***************************************************************************)
(* What the specification says of a failed generation                      *)
(***************************************************************************)
GenerationFailed == Session /\ st.step = 5 /\ ui.error = "generation"

\* C24: when CSV generation yields nothing or raises, the attempt is
\* reported as failed with nothing to download, the raw table, the mapping,
\* the config and the overrides are still in the session, and the user has
\* a way on: some action of the session (a new attempt, a new file, a step
\* back) can be taken
C24_FailedGenerationRecoverable ==
  GenerationFailed =>
    /\ shopify_csv.status # "ok"
    /\ ~ui.nav
    /\ st.df_raw # None
    /\ st.column_mapping # EmptyDict
    /\ DOMAIN st.variant_quantities # {}
    /\ ENABLED Next

(***************************************************************************)
(* What the specification says of the cached exploded table                *)
(***************************************************************************)
\* the exploded table as execute_data_processing computes it from what the
\* session holds now
ComputedNow == execute_data_processing([st EXCEPT !.processed_data = None], env).processed_data

\* C25: whenever CSV generation runs, the exploded table it consumes is the
\* one computed from the raw table, the mapping, the description elements
\* and the config that are current at that moment
C25_GenerationUsesCurrentTable ==
  [][(Session /\ st.step = 4 /\ st'.step = 5) => st.processed_data = ComputedNow]_vars

(***************************************************************************)
(* What the specification says of the stored mapping analysis              *)
(***************************************************************************)
\* C26: at step 2 or later the stored mapping analysis is the result of
\* analyze on the raw table that is loaded now, also after another file
\* was uploaded in the same session
C26_AnalysisOfLoadedTable ==
  (pc = "analysis" /\ aux.step >= 2) =>
    aux.mapping_result = Some(analyze_columns(aux.df_raw[1]))

(***************************************************************************)
(* What the specification says of repeated generation                      *)
(***************************************************************************)
GeneratedAgain == pc = "repeat" /\ aux.runs > 0 /\ result.status = "ok"

\* the mapped base price of the exploded row a catalog row was built from
BasePriceOf(o) ==
  clean_numeric(get_column_value(aux.st.processed_data[1][o.origin].src,
                                 aux.st.column_mapping, "Variant_Price", Num(0))).v

\* C27: when generation runs with enable_surcharge off, the Variant Price of
\* every output row is the row's mapped base price, also when an earlier
\* run on the same exploded table had enable_surcharge on
C27_NoSurchargeMeansBasePrice ==
  (GeneratedAgain /\ ~Get(aux.st.config, "enable_surcharge", FALSE)) =>
    \A i \in 1..Len(result.rows) :
      /\ result.rows[i].Variant_Price = BasePriceOf(result.rows[i])
      /\ result.rows[i].Variant_Price_ulps = 0

\* a run of generation that follows another one under the same config
SameConfigRun ==
  /\ pc = "repeat" /\ aux.runs > 0 /\ aux'.runs = aux.runs + 1
  /\ aux'.st.config = aux.st.config
  /\ aux'.st.variant_quantities = aux.st.variant_quantities
  /\ aux'.st.variant_compare_prices = aux.st.variant_compare_prices

\* C28: generation is repeatable: a run of generate_shopify_csv on the same
\* exploded table under the config and overrides of the run before yields
\* the same catalog, so a surcharge is applied to the mapped base price
\* every time and never to the price of an earlier run
C28_GenerationRepeatable ==
  [][SameConfigRun =>
       /\ result'.status = result.status
       /\ result'.rows = result.rows
       /\ result'.columns = result.columns]_vars

\* the third run under a surcharge of 10 percent on size L: the row of size
\* L priced 100.00 is at 110.00000000000001 as after the first run
C28_Witness ==
  /\ GeneratedAgain /\ aux.runs = 3
  /\ Get(aux.st.config, "enable_surcharge", FALSE)
  /\ \E i \in 1..Len(result.rows) :
       /\ BasePriceOf(result.rows[i]) = 10000
       /\ result.rows[i].Variant_Price = 11000
       /\ result.rows[i].Variant_Price_ulps = 1

(***************************************************************************)
(* What the specification says of the columns with a confidence score      *)
(***************************************************************************)
\* C29: in every result of analyze, each column that has a confidence score
\* is the column of at least one field of the final mapping, and no column
\* is both in the unmapped columns and in the confidence scores
C29_ScoredColumnsAreMapped ==
  Mapped =>
    \A column \in DOMAIN result.confidence_scores :
      /\ \E field \in DOMAIN result.base_mapping : result.base_mapping[field] = column
      /\ \A i \in 1..Len(result.unmapped_columns) : result.unmapped_columns[i] # column

(***************************************************************************)
(* What the specification says of the workflow step                        *)
(***************************************************************************)
\* the step is one of the five, and from step 2 on a table with rows is
\* loaded
StepInvariant ==
  /\ st.step \in 1..5
  /\ st.step >= 2 => (st.df_raw # None /\ Len(st.df_raw[1]) > 0)

\* a step of the session keeps the workflow step, or moves it by one
\* through a button of the page, or clears the session to step 1
StepMove ==
  \/ st'.step = st.step
  \/ /\ ui.nav
     /\ st'.step = st.step + 1 \/ st'.step = st.step - 1
  \/ st' = FreshSession

\* C30: in every reachable session state the workflow step is in 1..5 and,
\* at step 2 or more, a non-empty raw table is loaded; the step changes
\* only by +1 or -1 through a navigation button, or to 1 when the session
\* is cleared
C30_StepNavigation ==
  /\ [](Session => StepInvariant)
  /\ [][Session => StepMove]_vars

\* the catalog is generated at step 5 of a session that holds its table
C30_Witness ==
  /\ Session /\ st.step = 5 /\ ui.nav
  /\ st.df_raw # None /\ Len(st.df_raw[1]) = MaxRows

====
